---- MODULE Spec2Model ----
(***************************************************************************)
(* go-orderedmap: an ordered map made of a Go map from keys to list        *)
(* elements (OrderedMap.m) and a doubly-linked list of Items               *)
(* (OrderedMap.l).  The facade (orderedmap.go) is modelled operation by    *)
(* operation; the list engine (internal/list, a generic fork of            *)
(* container/list) is modelled as a ring of elements around a sentinel.    *)
(***************************************************************************)
EXTENDS Integers, Sequences, FiniteSets, TLC

(* ------------------------------ bounds -------------------------------- *)

\* Number of distinct keys the caller uses (K = int: 0 is the zero key).
NumKeys == 3
\* Number of distinct values the caller uses (0 is the zero value of V).
NumVals == 2

\* The key type K and the value type V, as far as the caller uses them.
K == 0..(NumKeys - 1)
V == 0..(NumVals - 1)

\* Size of the heap of list elements: one per key is all a map can hold.
MaxNodes == NumKeys
Nodes == 1..MaxNodes
\* Longest walk along the links that one traversal is allowed to make.
MaxWalk == MaxNodes + 1

(* --------------------------- errors and items -------------------------- *)

NilErr == "nil"
ErrKeyMissing == "key missing"
ErrMarkKeyMissing == "mark key missing"
ErrKeyAlreadyPresent == "key already present"

Item(key, value) == [Key |-> key, Value |-> value]
\* The zero value of Item[K, V], returned with ok = false.
ZeroItem == Item(0, 0)
ZeroValue == 0

(* ------------------------------ list engine ---------------------------- *)
(* The list is a ring: Root is the sentinel, Root.next the front element   *)
(* and Root.prev the back element.  NilE is the nil element pointer.       *)

Root == 0
NilE == -1
Slots == {Root} \cup Nodes

\* list.New(): an empty ring; elements not in use are unlinked and zeroed.
ListNew ==
    [next  |-> [n \in Slots |-> IF n = Root THEN Root ELSE NilE],
     prev  |-> [n \in Slots |-> IF n = Root THEN Root ELSE NilE],
     len   |-> 0,
     value |-> [n \in Nodes |-> ZeroItem],
     list  |-> [n \in Nodes |-> FALSE]]

\* (*List).Init(): the ring is reset; the old elements become garbage.
ListInit(l) == ListNew

\* (*List).Len()
ListLen(l) == l.len

\* Whether element e belongs to list l (e.list == l).
InList(l, e) == e \in Nodes /\ l.list[e]

\* Allocation of a fresh element for value v: any slot that no live element
\* occupies will do, since elements are only ever compared for identity.
\* The slot numbered after v's key is taken when it is free, the lowest
\* free slot otherwise, so that equal lists are laid out equally.
FreeNodes(l) == {n \in Nodes : ~l.list[n]}
NewElement(l, v) ==
    IF v.Key + 1 \in FreeNodes(l) THEN v.Key + 1
    ELSE IF FreeNodes(l) = {} THEN MaxNodes
    ELSE CHOOSE n \in FreeNodes(l) : \A o \in FreeNodes(l) : n <= o

\* (*List).Front() / Back(): nil on an empty list.
ListFront(l) == IF l.len = 0 THEN NilE ELSE l.next[Root]
ListBack(l) == IF l.len = 0 THEN NilE ELSE l.prev[Root]

\* (*Element).Next() / Prev(): nil at the end of the list.
ElemNext(l, e) ==
    IF InList(l, e) /\ l.next[e] # Root THEN l.next[e] ELSE NilE
ElemPrev(l, e) ==
    IF InList(l, e) /\ l.prev[e] # Root THEN l.prev[e] ELSE NilE

\* insert: links e after at and counts it.
ListLink(l, e, at) ==
    LET nx == l.next[at] IN
    [l EXCEPT !.prev = [@ EXCEPT ![e] = at, ![nx] = e],
              !.next = [@ EXCEPT ![e] = nx, ![at] = e],
              !.list = [@ EXCEPT ![e] = TRUE],
              !.len = @ + 1]

\* insertValue: a new element holding v, linked after at.
ListInsertValue(l, v, at) ==
    LET e == NewElement(l, v)
        l1 == [l EXCEPT !.value = [@ EXCEPT ![e] = v]]
    IN [l |-> ListLink(l1, e, at), e |-> e]

\* remove: closes the gap around e and releases e.
ListUnlink(l, e) ==
    LET p == l.prev[e]
        n == l.next[e]
        l1 == [l EXCEPT !.next = [@ EXCEPT ![p] = n]]
        l2 == [l1 EXCEPT !.prev = [@ EXCEPT ![n] = p]]
    IN [l2 EXCEPT !.next = [@ EXCEPT ![e] = NilE],
                  !.prev = [@ EXCEPT ![e] = NilE],
                  !.list = [@ EXCEPT ![e] = FALSE],
                  !.value = [@ EXCEPT ![e] = ZeroItem],
                  !.len = @ - 1]

\* move: takes e out of its place and links it after at.
ListMove(l, e, at) ==
    IF e = at THEN l
    ELSE LET p == l.prev[e]
             n == l.next[e]
             l1 == [l EXCEPT !.next = [@ EXCEPT ![p] = n]]
             l2 == [l1 EXCEPT !.prev = [@ EXCEPT ![n] = p]]
             nx == l2.next[at]
             l3 == [l2 EXCEPT !.prev = [@ EXCEPT ![e] = at],
                              !.next = [@ EXCEPT ![e] = nx]]
             l4 == [l3 EXCEPT !.next = [@ EXCEPT ![at] = e]]
         IN [l4 EXCEPT !.prev = [@ EXCEPT ![nx] = e]]

ListPushFront(l, v) == ListInsertValue(l, v, Root)
ListPushBack(l, v) == ListInsertValue(l, v, l.prev[Root])

ListInsertAfter(l, v, mark) ==
    IF ~InList(l, mark) THEN [l |-> l, e |-> NilE]
    ELSE ListInsertValue(l, v, mark)
ListInsertBefore(l, v, mark) ==
    IF ~InList(l, mark) THEN [l |-> l, e |-> NilE]
    ELSE ListInsertValue(l, v, l.prev[mark])

\* (*List).Remove(e): detaches e and returns the value it held.
ListRemove(l, e) ==
    IF InList(l, e) THEN [l |-> ListUnlink(l, e), value |-> l.value[e]]
    ELSE [l |-> l, value |-> IF e \in Nodes THEN l.value[e] ELSE ZeroItem]

ListMoveToFront(l, e) ==
    IF ~InList(l, e) \/ l.next[Root] = e THEN l ELSE ListMove(l, e, Root)
ListMoveToBack(l, e) ==
    IF ~InList(l, e) \/ l.prev[Root] = e THEN l
    ELSE ListMove(l, e, l.prev[Root])
ListMoveAfter(l, e, mark) ==
    IF ~InList(l, e) \/ e = mark \/ ~InList(l, mark) THEN l
    ELSE ListMove(l, e, mark)
ListMoveBefore(l, e, mark) ==
    IF ~InList(l, e) \/ e = mark \/ ~InList(l, mark) THEN l
    ELSE ListMove(l, e, l.prev[mark])

(* ------------------------------ the Go map ----------------------------- *)

EmptyMap == [k \in {} |-> NilE]
\* m[key] = e
MapSet(m, key, e) ==
    [k \in DOMAIN m \cup {key} |-> IF k = key THEN e ELSE m[k]]
\* delete(m, key)
MapDelete(m, key) == [k \in DOMAIN m \ {key} |-> m[k]]

(* ------------------------- OrderedMap: the facade ---------------------- *)
(* An OrderedMap is the record [m, l]: m maps each key to its list         *)
(* element, l is the list of Items.  Every operation is a function of the  *)
(* map before the call to the map after it and what the call returns.      *)

\* New(): an empty table and an empty list.
New == [m |-> EmptyMap, l |-> ListNew]

\* Get(key): the value stored for key, ok = false when key is absent.
Get(om, key) ==
    IF key \in DOMAIN om.m
    THEN [value |-> om.l.value[om.m[key]].Value, ok |-> TRUE]
    ELSE [value |-> ZeroValue, ok |-> FALSE]

\* Update that returns the new value as the old one.
Update_ReturnsNew(om, key, value) ==
    IF key \notin DOMAIN om.m
    THEN [om |-> om, value |-> ZeroValue, err |-> ErrKeyMissing]
    ELSE LET el == om.m[key] IN
         [om    |-> [om EXCEPT !.l.value[el].Value = value],
          value |-> value,
          err   |-> NilErr]

\* Update(key, value): replaces the value in place, returns the old one.
Update(om, key, value) ==
    IF key \notin DOMAIN om.m
    THEN [om |-> om, value |-> ZeroValue, err |-> ErrKeyMissing]
    ELSE LET el == om.m[key] IN
         [om    |-> [om EXCEPT !.l.value[el].Value = value],
          value |-> om.l.value[el].Value,
          err   |-> NilErr]

\* Front() / Back(): the item at that end, ok = false on an empty map.
Front(om) ==
    LET front == ListFront(om.l) IN
    IF front # NilE THEN [item |-> om.l.value[front], ok |-> TRUE]
    ELSE [item |-> ZeroItem, ok |-> FALSE]

\* Back that reads the front of the list.
Back_ReturnsFront(om) ==
    LET back == ListFront(om.l) IN
    IF back # NilE THEN [item |-> om.l.value[back], ok |-> TRUE]
    ELSE [item |-> ZeroItem, ok |-> FALSE]

Back(om) ==
    LET back == ListBack(om.l) IN
    IF back # NilE THEN [item |-> om.l.value[back], ok |-> TRUE]
    ELSE [item |-> ZeroItem, ok |-> FALSE]

\* PushFront without the presence check.
PushFront_NoCheck(om, key, value) ==
    LET r == ListPushFront(om.l, Item(key, value)) IN
    [om |-> [m |-> MapSet(om.m, key, r.e), l |-> r.l], err |-> NilErr]

\* PushFront that stores the zero value in place of the value it is given.
PushFront_StoresZero(om, key, value) ==
    IF key \in DOMAIN om.m THEN [om |-> om, err |-> ErrKeyAlreadyPresent]
    ELSE LET r == ListPushFront(om.l, Item(key, ZeroValue)) IN
         [om |-> [m |-> MapSet(om.m, key, r.e), l |-> r.l], err |-> NilErr]

\* PushFront(key, value)
PushFront(om, key, value) ==
    IF key \in DOMAIN om.m THEN [om |-> om, err |-> ErrKeyAlreadyPresent]
    ELSE LET r == ListPushFront(om.l, Item(key, value)) IN
         [om |-> [m |-> MapSet(om.m, key, r.e), l |-> r.l], err |-> NilErr]

\* PushBack that pushes onto the front of the list.
PushBack_AtFront(om, key, value) ==
    IF key \in DOMAIN om.m THEN [om |-> om, err |-> ErrKeyAlreadyPresent]
    ELSE LET r == ListPushFront(om.l, Item(key, value)) IN
         [om |-> [m |-> MapSet(om.m, key, r.e), l |-> r.l], err |-> NilErr]

\* PushBack that stores the new value under a key already present.
PushBack_Overwrites(om, key, value) ==
    IF key \in DOMAIN om.m
    THEN [om  |-> [om EXCEPT !.l.value[om.m[key]].Value = value],
          err |-> ErrKeyAlreadyPresent]
    ELSE LET r == ListPushBack(om.l, Item(key, value)) IN
         [om |-> [m |-> MapSet(om.m, key, r.e), l |-> r.l], err |-> NilErr]

\* PushBack(key, value)
PushBack(om, key, value) ==
    IF key \in DOMAIN om.m THEN [om |-> om, err |-> ErrKeyAlreadyPresent]
    ELSE LET r == ListPushBack(om.l, Item(key, value)) IN
         [om |-> [m |-> MapSet(om.m, key, r.e), l |-> r.l], err |-> NilErr]

\* InsertAfter that inserts before the mark.
InsertAfter_Before(om, key, value, mark) ==
    IF key \in DOMAIN om.m THEN [om |-> om, err |-> ErrKeyAlreadyPresent]
    ELSE IF mark \notin DOMAIN om.m THEN [om |-> om, err |-> ErrMarkKeyMissing]
    ELSE LET r == ListInsertBefore(om.l, Item(key, value), om.m[mark]) IN
         [om |-> [m |-> MapSet(om.m, key, r.e), l |-> r.l], err |-> NilErr]

\* InsertAfter that appends the item when the mark is missing, and still
\* reports the missing mark.
InsertAfter_AppendsOnMissingMark(om, key, value, mark) ==
    IF key \in DOMAIN om.m THEN [om |-> om, err |-> ErrKeyAlreadyPresent]
    ELSE IF mark \notin DOMAIN om.m
    THEN LET r == ListPushBack(om.l, Item(key, value)) IN
         [om  |-> [m |-> MapSet(om.m, key, r.e), l |-> r.l],
          err |-> ErrMarkKeyMissing]
    ELSE LET r == ListInsertAfter(om.l, Item(key, value), om.m[mark]) IN
         [om |-> [m |-> MapSet(om.m, key, r.e), l |-> r.l], err |-> NilErr]

\* InsertAfter that returns nil when key and mark are the same, as
\* MoveAfter does.
InsertAfter_SelfMarkNil(om, key, value, mark) ==
    IF key = mark THEN [om |-> om, err |-> NilErr]
    ELSE IF key \in DOMAIN om.m THEN [om |-> om, err |-> ErrKeyAlreadyPresent]
    ELSE IF mark \notin DOMAIN om.m THEN [om |-> om, err |-> ErrMarkKeyMissing]
    ELSE LET r == ListInsertAfter(om.l, Item(key, value), om.m[mark]) IN
         [om |-> [m |-> MapSet(om.m, key, r.e), l |-> r.l], err |-> NilErr]

\* InsertAfter(key, value, mark): the key is checked before the mark.
InsertAfter(om, key, value, mark) ==
    IF key \in DOMAIN om.m THEN [om |-> om, err |-> ErrKeyAlreadyPresent]
    ELSE IF mark \notin DOMAIN om.m THEN [om |-> om, err |-> ErrMarkKeyMissing]
    ELSE LET r == ListInsertAfter(om.l, Item(key, value), om.m[mark]) IN
         [om |-> [m |-> MapSet(om.m, key, r.e), l |-> r.l], err |-> NilErr]

\* InsertBefore that checks the mark before the key.
InsertBefore_MarkFirst(om, key, value, mark) ==
    IF mark \notin DOMAIN om.m THEN [om |-> om, err |-> ErrMarkKeyMissing]
    ELSE IF key \in DOMAIN om.m THEN [om |-> om, err |-> ErrKeyAlreadyPresent]
    ELSE LET r == ListInsertBefore(om.l, Item(key, value), om.m[mark]) IN
         [om |-> [m |-> MapSet(om.m, key, r.e), l |-> r.l], err |-> NilErr]

\* InsertBefore(key, value, mark)
InsertBefore(om, key, value, mark) ==
    IF key \in DOMAIN om.m THEN [om |-> om, err |-> ErrKeyAlreadyPresent]
    ELSE IF mark \notin DOMAIN om.m THEN [om |-> om, err |-> ErrMarkKeyMissing]
    ELSE LET r == ListInsertBefore(om.l, Item(key, value), om.m[mark]) IN
         [om |-> [m |-> MapSet(om.m, key, r.e), l |-> r.l], err |-> NilErr]

\* MoveToFront that moves to the back.
MoveToFront_ToBack(om, key) ==
    IF key \notin DOMAIN om.m THEN [om |-> om, err |-> ErrKeyMissing]
    ELSE [om  |-> [om EXCEPT !.l = ListMoveToBack(om.l, om.m[key])],
          err |-> NilErr]

\* MoveToFront(key)
MoveToFront(om, key) ==
    IF key \notin DOMAIN om.m THEN [om |-> om, err |-> ErrKeyMissing]
    ELSE [om  |-> [om EXCEPT !.l = ListMoveToFront(om.l, om.m[key])],
          err |-> NilErr]

\* MoveToBack that moves to the front.
MoveToBack_ToFront(om, key) ==
    IF key \notin DOMAIN om.m THEN [om |-> om, err |-> ErrKeyMissing]
    ELSE [om  |-> [om EXCEPT !.l = ListMoveToFront(om.l, om.m[key])],
          err |-> NilErr]

\* MoveToBack that takes the entry out and does not put it back.
MoveToBack_Drops(om, key) ==
    IF key \notin DOMAIN om.m THEN [om |-> om, err |-> ErrKeyMissing]
    ELSE IF ListBack(om.l) = om.m[key] THEN [om |-> om, err |-> NilErr]
    ELSE [om  |-> [m |-> MapDelete(om.m, key),
                   l |-> ListRemove(om.l, om.m[key]).l],
          err |-> NilErr]

\* MoveToBack that returns nil for a missing key.
MoveToBack_NilOnMissing(om, key) ==
    IF key \notin DOMAIN om.m THEN [om |-> om, err |-> NilErr]
    ELSE [om  |-> [om EXCEPT !.l = ListMoveToBack(om.l, om.m[key])],
          err |-> NilErr]

\* MoveToBack(key)
MoveToBack(om, key) ==
    IF key \notin DOMAIN om.m THEN [om |-> om, err |-> ErrKeyMissing]
    ELSE [om  |-> [om EXCEPT !.l = ListMoveToBack(om.l, om.m[key])],
          err |-> NilErr]

\* MoveAfter that reports a missing mark with ErrMarkKeyMissing.
MoveAfter_MarkError(om, key, mark) ==
    IF key = mark THEN [om |-> om, err |-> NilErr]
    ELSE IF key \notin DOMAIN om.m THEN [om |-> om, err |-> ErrKeyMissing]
    ELSE IF mark \notin DOMAIN om.m THEN [om |-> om, err |-> ErrMarkKeyMissing]
    ELSE [om  |-> [om EXCEPT !.l = ListMoveAfter(om.l, om.m[key], om.m[mark])],
          err |-> NilErr]

\* MoveAfter that hands the two elements to the list the other way round.
MoveAfter_Swapped(om, key, mark) ==
    IF key = mark THEN [om |-> om, err |-> NilErr]
    ELSE IF key \notin DOMAIN om.m THEN [om |-> om, err |-> ErrKeyMissing]
    ELSE IF mark \notin DOMAIN om.m THEN [om |-> om, err |-> ErrKeyMissing]
    ELSE [om  |-> [om EXCEPT !.l = ListMoveAfter(om.l, om.m[mark], om.m[key])],
          err |-> NilErr]

\* MoveAfter(key, mark): key == mark returns nil before any lookup; a
\* missing mark is reported with ErrKeyMissing, like a missing key.
MoveAfter(om, key, mark) ==
    IF key = mark THEN [om |-> om, err |-> NilErr]
    ELSE IF key \notin DOMAIN om.m THEN [om |-> om, err |-> ErrKeyMissing]
    ELSE IF mark \notin DOMAIN om.m THEN [om |-> om, err |-> ErrKeyMissing]
    ELSE [om  |-> [om EXCEPT !.l = ListMoveAfter(om.l, om.m[key], om.m[mark])],
          err |-> NilErr]

\* MoveBefore without the key == mark shortcut.
MoveBefore_NoSelfCheck(om, key, mark) ==
    IF key \notin DOMAIN om.m THEN [om |-> om, err |-> ErrKeyMissing]
    ELSE IF mark \notin DOMAIN om.m THEN [om |-> om, err |-> ErrKeyMissing]
    ELSE [om  |-> [om EXCEPT !.l = ListMoveBefore(om.l, om.m[key], om.m[mark])],
          err |-> NilErr]

\* MoveBefore that moves the key after the mark.
MoveBefore_After(om, key, mark) ==
    IF key = mark THEN [om |-> om, err |-> NilErr]
    ELSE IF key \notin DOMAIN om.m THEN [om |-> om, err |-> ErrKeyMissing]
    ELSE IF mark \notin DOMAIN om.m THEN [om |-> om, err |-> ErrKeyMissing]
    ELSE [om  |-> [om EXCEPT !.l = ListMoveAfter(om.l, om.m[key], om.m[mark])],
          err |-> NilErr]

\* MoveBefore(key, mark)
MoveBefore(om, key, mark) ==
    IF key = mark THEN [om |-> om, err |-> NilErr]
    ELSE IF key \notin DOMAIN om.m THEN [om |-> om, err |-> ErrKeyMissing]
    ELSE IF mark \notin DOMAIN om.m THEN [om |-> om, err |-> ErrKeyMissing]
    ELSE [om  |-> [om EXCEPT !.l = ListMoveBefore(om.l, om.m[key], om.m[mark])],
          err |-> NilErr]

\* Delete that forgets the list element.
Delete_KeepsElement(om, key) ==
    IF key \notin DOMAIN om.m THEN [om |-> om, value |-> ZeroValue, ok |-> FALSE]
    ELSE [om    |-> [m |-> MapDelete(om.m, key), l |-> om.l],
          value |-> om.l.value[om.m[key]].Value,
          ok    |-> TRUE]

\* Delete that forgets the table entry.
Delete_KeepsEntry(om, key) ==
    IF key \notin DOMAIN om.m THEN [om |-> om, value |-> ZeroValue, ok |-> FALSE]
    ELSE LET r == ListRemove(om.l, om.m[key]) IN
         [om    |-> [m |-> om.m, l |-> r.l],
          value |-> r.value.Value,
          ok    |-> TRUE]

\* Delete(key): removes the element from the list, then the table entry.
Delete(om, key) ==
    IF key \notin DOMAIN om.m THEN [om |-> om, value |-> ZeroValue, ok |-> FALSE]
    ELSE LET r == ListRemove(om.l, om.m[key]) IN
         [om    |-> [m |-> MapDelete(om.m, key), l |-> r.l],
          value |-> r.value.Value,
          ok    |-> TRUE]

\* PopFront that pops the back element.
PopFront_PopsBack(om) ==
    LET el == ListBack(om.l) IN
    IF el = NilE THEN [om |-> om, item |-> ZeroItem, ok |-> FALSE]
    ELSE LET m1 == MapDelete(om.m, om.l.value[el].Key)
             r == ListRemove(om.l, el)
         IN [om |-> [m |-> m1, l |-> r.l], item |-> r.value, ok |-> TRUE]

\* PopFront(): deletes the front element's key from the table, then removes
\* the element from the list.
PopFront(om) ==
    LET el == ListFront(om.l) IN
    IF el = NilE THEN [om |-> om, item |-> ZeroItem, ok |-> FALSE]
    ELSE LET m1 == MapDelete(om.m, om.l.value[el].Key)
             r == ListRemove(om.l, el)
         IN [om |-> [m |-> m1, l |-> r.l], item |-> r.value, ok |-> TRUE]

\* PopBack that pops the front element.
PopBack_PopsFront(om) ==
    LET el == ListFront(om.l) IN
    IF el = NilE THEN [om |-> om, item |-> ZeroItem, ok |-> FALSE]
    ELSE LET m1 == MapDelete(om.m, om.l.value[el].Key)
             r == ListRemove(om.l, el)
         IN [om |-> [m |-> m1, l |-> r.l], item |-> r.value, ok |-> TRUE]

\* PopBack()
PopBack(om) ==
    LET el == ListBack(om.l) IN
    IF el = NilE THEN [om |-> om, item |-> ZeroItem, ok |-> FALSE]
    ELSE LET m1 == MapDelete(om.m, om.l.value[el].Key)
             r == ListRemove(om.l, el)
         IN [om |-> [m |-> m1, l |-> r.l], item |-> r.value, ok |-> TRUE]

\* Len(): the number of table entries.
OMLen(om) == Cardinality(DOMAIN om.m)

\* Clear that re-initialises the list and keeps the table.
Clear_KeepsTable(om) == [om |-> [m |-> om.m, l |-> ListInit(om.l)]]

\* Clear(): a fresh table, and the list re-initialised.
Clear(om) == [om |-> [m |-> EmptyMap, l |-> ListInit(om.l)]]

\* The loop of Keys() and Items(): from element e along Element.Next()
\* until nil, appending what f takes from each element's value.
RECURSIVE WalkNext(_, _, _)
WalkNext(l, e, fuel) ==
    IF e = NilE \/ fuel = 0 THEN << >>
    ELSE <<e>> \o WalkNext(l, ElemNext(l, e), fuel - 1)

\* Keys that walks from the back.
Keys_BackToFront(om) ==
    LET es == WalkNext(om.l, ListFront(om.l), MaxWalk) IN
    [i \in 1..Len(es) |-> om.l.value[es[Len(es) + 1 - i]].Key]

\* Keys(): the keys front to back.
Keys(om) ==
    LET es == WalkNext(om.l, ListFront(om.l), MaxWalk) IN
    [i \in 1..Len(es) |-> om.l.value[es[i]].Key]

\* Items that walks from the back along Element.Prev().
Items_BackToFront(om) ==
    LET es == WalkNext(om.l, ListFront(om.l), MaxWalk) IN
    [i \in 1..Len(es) |-> om.l.value[es[Len(es) + 1 - i]]]

\* Items(): the items front to back.
Items(om) ==
    LET es == WalkNext(om.l, ListFront(om.l), MaxWalk) IN
    [i \in 1..Len(es) |-> om.l.value[es[i]]]

\* Map that stores each item's key as its value.
Map_OfKeys(om) == [k \in DOMAIN om.m |-> om.l.value[om.m[k]].Key]

\* Map(): a new Go map from every key of the table to its value.
Map(om) == [k \in DOMAIN om.m |-> om.l.value[om.m[k]].Value]

\* Next that follows the prev link.
Next_UsesPrev(om, key) ==
    IF key \notin DOMAIN om.m THEN [item |-> ZeroItem, ok |-> FALSE]
    ELSE LET e == ElemPrev(om.l, om.m[key]) IN
         IF e = NilE THEN [item |-> ZeroItem, ok |-> FALSE]
         ELSE [item |-> om.l.value[e], ok |-> TRUE]

\* Next that does not step to the following element.
Next_ReturnsSelf(om, key) ==
    IF key \notin DOMAIN om.m THEN [item |-> ZeroItem, ok |-> FALSE]
    ELSE LET e == om.m[key] IN
         IF e = NilE THEN [item |-> ZeroItem, ok |-> FALSE]
         ELSE [item |-> om.l.value[e], ok |-> TRUE]

\* Next that goes round the ring: after the last item comes the first.
Next_Wraps(om, key) ==
    IF key \notin DOMAIN om.m THEN [item |-> ZeroItem, ok |-> FALSE]
    ELSE LET e == ElemNext(om.l, om.m[key]) IN
         IF e = NilE THEN Front(om)
         ELSE [item |-> om.l.value[e], ok |-> TRUE]

\* Next(key): the item after key's, ok = false if key is absent or last.
Next(om, key) ==
    IF key \notin DOMAIN om.m THEN [item |-> ZeroItem, ok |-> FALSE]
    ELSE LET e == ElemNext(om.l, om.m[key]) IN
         IF e = NilE THEN [item |-> ZeroItem, ok |-> FALSE]
         ELSE [item |-> om.l.value[e], ok |-> TRUE]

\* Prev(key): the item before key's, ok = false if key is absent or first.
Prev(om, key) ==
    IF key \notin DOMAIN om.m THEN [item |-> ZeroItem, ok |-> FALSE]
    ELSE LET e == ElemPrev(om.l, om.m[key]) IN
         IF e = NilE THEN [item |-> ZeroItem, ok |-> FALSE]
         ELSE [item |-> om.l.value[e], ok |-> TRUE]

\* The functions a caller passes to Range, RangeReverse and Filter: pure
\* functions of (key, value) that accept a set of keys or a set of
\* values; NilFunc is the nil function.
KeyIn(S) == [nil |-> FALSE, keys |-> S, values |-> V]
ValueIn(T) == [nil |-> FALSE, keys |-> K, values |-> T]
Funcs == {KeyIn(S) : S \in SUBSET K} \cup {ValueIn(T) : T \in SUBSET V}
NilFunc == [nil |-> TRUE, keys |-> {}, values |-> {}]
Apply(f, key, value) == key \in f.keys /\ value \in f.values

\* Reverse that appends to the copy.
RECURSIVE ReverseFrom_PushBack(_, _, _, _)
ReverseFrom_PushBack(om, r, out, fuel) ==
    IF ~r.ok \/ fuel = 0 THEN [out |-> out, panic |-> FALSE]
    ELSE LET p == PushBack(out, r.item.Key, r.item.Value) IN
         IF p.err # NilErr THEN [out |-> out, panic |-> TRUE]
         ELSE ReverseFrom_PushBack(om, Next(om, r.item.Key), p.om, fuel - 1)
Reverse_PushBack(om) ==
    LET r == ReverseFrom_PushBack(om, Front(om), New, MaxWalk) IN
    [om |-> om, out |-> r.out, fresh |-> TRUE, panic |-> r.panic]

\* The loop of Reverse(): from item r along Next(item.Key), pushing each
\* item to the front of out; a failed push panics.
RECURSIVE ReverseFrom(_, _, _, _)
ReverseFrom(om, r, out, fuel) ==
    IF ~r.ok \/ fuel = 0 THEN [out |-> out, panic |-> FALSE]
    ELSE LET p == PushFront(out, r.item.Key, r.item.Value) IN
         IF p.err # NilErr THEN [out |-> out, panic |-> TRUE]
         ELSE ReverseFrom(om, Next(om, r.item.Key), p.om, fuel - 1)

\* Reverse(): a new map with the items in reverse order.
Reverse(om) ==
    LET r == ReverseFrom(om, Front(om), New, MaxWalk) IN
    [om |-> om, out |-> r.out, fresh |-> TRUE, panic |-> r.panic]

\* Filter that pushes the items it keeps to the front of the copy.
RECURSIVE FilterFrom_PushFront(_, _, _, _, _)
FilterFrom_PushFront(om, r, f, out, fuel) ==
    IF ~r.ok \/ fuel = 0 THEN [out |-> out, panic |-> FALSE]
    ELSE IF ~f.nil /\ ~Apply(f, r.item.Key, r.item.Value)
    THEN FilterFrom_PushFront(om, Next(om, r.item.Key), f, out, fuel - 1)
    ELSE LET p == PushFront(out, r.item.Key, r.item.Value) IN
         IF p.err # NilErr THEN [out |-> out, panic |-> TRUE]
         ELSE FilterFrom_PushFront(om, Next(om, r.item.Key), f, p.om, fuel - 1)
Filter_PushFront(om, f) ==
    LET r == FilterFrom_PushFront(om, Front(om), f, New, MaxWalk) IN
    [om |-> om, out |-> r.out, fresh |-> TRUE, panic |-> r.panic]

\* The loop of Filter(): from item r along Next(item.Key), skipping the
\* items a non-nil f rejects and pushing the others to the back of out.
RECURSIVE FilterFrom(_, _, _, _, _)
FilterFrom(om, r, f, out, fuel) ==
    IF ~r.ok \/ fuel = 0 THEN [out |-> out, panic |-> FALSE]
    ELSE IF ~f.nil /\ ~Apply(f, r.item.Key, r.item.Value)
    THEN FilterFrom(om, Next(om, r.item.Key), f, out, fuel - 1)
    ELSE LET p == PushBack(out, r.item.Key, r.item.Value) IN
         IF p.err # NilErr THEN [out |-> out, panic |-> TRUE]
         ELSE FilterFrom(om, Next(om, r.item.Key), f, p.om, fuel - 1)

\* Filter that returns the receiver itself when no item is rejected.
Filter_ReceiverIfAllPass(om, f) ==
    LET r == FilterFrom(om, Front(om), f, New, MaxWalk) IN
    IF ~r.panic /\ r.out.l.len = om.l.len
    THEN [om |-> om, out |-> om, fresh |-> FALSE, panic |-> FALSE]
    ELSE [om |-> om, out |-> r.out, fresh |-> TRUE, panic |-> r.panic]

\* Filter(f): a new map with the items f accepts, all of them if f is nil.
\* What it returns is out, the map it made with New().
Filter(om, f) ==
    LET r == FilterFrom(om, Front(om), f, New, MaxWalk) IN
    [om |-> om, out |-> r.out, fresh |-> TRUE, panic |-> r.panic]

\* Filter whose loop looks up the following item before it calls the
\* predicate.
RECURSIVE FilterFromDeleting_NextFirst(_, _, _, _, _, _)
FilterFromDeleting_NextFirst(om, r, f, D, out, fuel) ==
    IF ~r.ok \/ fuel = 0 THEN [om |-> om, out |-> out, panic |-> FALSE]
    ELSE LET key == r.item.Key
             following == Next(om, key)
             om1 == IF key \in D THEN Delete(om, key).om ELSE om
         IN  IF ~Apply(f, key, r.item.Value)
             THEN FilterFromDeleting_NextFirst(om1, following, f, D, out,
                                               fuel - 1)
             ELSE LET p == PushBack(out, key, r.item.Value) IN
                  IF p.err # NilErr
                  THEN [om |-> om1, out |-> out, panic |-> TRUE]
                  ELSE FilterFromDeleting_NextFirst(om1, following, f, D,
                                                    p.om, fuel - 1)

FilterDeleting_NextFirst(om, f, D) ==
    LET r == FilterFromDeleting_NextFirst(om, Front(om), f, D, New, MaxWalk) IN
    [om |-> r.om, out |-> r.out, fresh |-> TRUE, panic |-> r.panic]

\* The loop of Filter() when the predicate changes the map it is called
\* from: the predicate is the closure
\*     func(k K, v V) bool { if k is in D { m.Delete(k) }; return f(k, v) }
\* for a non-nil f.  The item was copied out of the list before the call,
\* so an accepted item is pushed as it was; the loop's next item is
\* m.Next(item.Key), looked up in the map as the predicate left it.
RECURSIVE FilterFromDeleting(_, _, _, _, _, _)
FilterFromDeleting(om, r, f, D, out, fuel) ==
    IF ~r.ok \/ fuel = 0 THEN [om |-> om, out |-> out, panic |-> FALSE]
    ELSE LET key == r.item.Key
             om1 == IF key \in D THEN Delete(om, key).om ELSE om
         IN  IF ~Apply(f, key, r.item.Value)
             THEN FilterFromDeleting(om1, Next(om1, key), f, D, out, fuel - 1)
             ELSE LET p == PushBack(out, key, r.item.Value) IN
                  IF p.err # NilErr
                  THEN [om |-> om1, out |-> out, panic |-> TRUE]
                  ELSE FilterFromDeleting(om1, Next(om1, key), f, D, p.om,
                                          fuel - 1)

\* Filter(f) with such a predicate: the receiver as the predicate left it,
\* and the map Filter returns.
FilterDeleting(om, f, D) ==
    LET r == FilterFromDeleting(om, Front(om), f, D, New, MaxWalk) IN
    [om |-> r.om, out |-> r.out, fresh |-> TRUE, panic |-> r.panic]

\* The loop of Range(): from element e along Element.Next(), calling f on
\* each item until f returns false; the result is the items f was called on.
RECURSIVE RangeFrom(_, _, _, _)
RangeFrom(l, e, f, fuel) ==
    IF e = NilE \/ fuel = 0 THEN << >>
    ELSE IF ~Apply(f, l.value[e].Key, l.value[e].Value) THEN <<l.value[e]>>
    ELSE <<l.value[e]>> \o RangeFrom(l, ElemNext(l, e), f, fuel - 1)

\* Range that goes on after f has returned false.
Range_IgnoresStop(om, f) ==
    LET es == WalkNext(om.l, ListFront(om.l), MaxWalk) IN
    IF f.nil /\ ListFront(om.l) # NilE
    THEN [om |-> om, calls |-> << >>, panic |-> TRUE]
    ELSE [om |-> om, calls |-> [i \in 1..Len(es) |-> om.l.value[es[i]]],
          panic |-> FALSE]

\* Range(f): f on the items front to back.  Range does not look at f
\* before it calls it: the call of a nil f, on the first item, panics.
Range(om, f) ==
    IF f.nil /\ ListFront(om.l) # NilE
    THEN [om |-> om, calls |-> << >>, panic |-> TRUE]
    ELSE [om |-> om, calls |-> RangeFrom(om.l, ListFront(om.l), f, MaxWalk),
          panic |-> FALSE]

\* The loop of RangeReverse(): the same along Element.Prev().
RECURSIVE RangeReverseFrom(_, _, _, _)
RangeReverseFrom(l, e, f, fuel) ==
    IF e = NilE \/ fuel = 0 THEN << >>
    ELSE IF ~Apply(f, l.value[e].Key, l.value[e].Value) THEN <<l.value[e]>>
    ELSE <<l.value[e]>> \o RangeReverseFrom(l, ElemPrev(l, e), f, fuel - 1)

\* RangeReverse(f): f on the items back to front.
RangeReverse(om, f) ==
    IF f.nil /\ ListBack(om.l) # NilE
    THEN [om |-> om, calls |-> << >>, panic |-> TRUE]
    ELSE [om |-> om,
          calls |-> RangeReverseFrom(om.l, ListBack(om.l), f, MaxWalk),
          panic |-> FALSE]

\* newFromItems(items): a new map with the items pushed to the back one
\* after the other; the first push that fails ends it with that error.
RECURSIVE PushAll(_, _, _)
PushAll(m, items, i) ==
    IF i > Len(items) THEN [om |-> m, err |-> NilErr]
    ELSE LET p == PushBack(m, items[i].Key, items[i].Value) IN
         IF p.err # NilErr THEN [om |-> m, err |-> p.err]
         ELSE PushAll(p.om, items, i + 1)
newFromItems(items) == PushAll(New, items, 1)

(* ------------------------------ state machine -------------------------- *)
(* One map, created by New(), and one caller that calls the public         *)
(* operations one after the other with any arguments.  `last` is the       *)
(* caller's record of the call that has just returned: the operation, its  *)
(* arguments, what it returned and the map as it was before the call.      *)
(* `held` is what the caller keeps of a call before that one.              *)

VARIABLES om, last, held

vars == <<om, last, held>>

\* No call is on record: the caller is about to make one.
NoCall ==
    [op |-> "none", key |-> 0, value |-> 0, mark |-> 0,
     err |-> NilErr, rvalue |-> ZeroValue, ritem |-> ZeroItem, ok |-> FALSE,
     rlen |-> 0, rseq |-> << >>, rmap |-> << >>,
     f |-> NilFunc, out |-> New, fresh |-> TRUE, panic |-> FALSE,
     pre |-> New]

Ready == last.op = "none"

\* What the caller keeps of an earlier call: nothing, the slice Keys() or
\* Items() returned, the Go map Map() returned, or the map Filter() or
\* Reverse() returned.  `of` is the receiver as it was at that call.  A
\* kept map is another object than the receiver if `fresh`, and the
\* receiver itself if not; `turned` tells that the caller has made it the
\* receiver of its calls, and keeps the map it came from.
Nothing ==
    [kind |-> "none", seq |-> << >>, map |-> << >>,
     om |-> New, fresh |-> TRUE, turned |-> FALSE, of |-> New]

Init ==
    /\ om = New
    /\ last = NoCall
    /\ held = Nothing

\* The call's record: NoCall with the fields the operation sets.
Called(op, key, value, mark) ==
    [NoCall EXCEPT !.op = op, !.key = key, !.value = value, !.mark = mark,
                   !.pre = om]

\* An insertion needs a free slot on the heap, unless it fails.
HeapAllows(r) == r.err # NilErr \/ FreeNodes(om.l) # {}

CallPushFront ==
    \E key \in K, value \in V :
        LET r == PushFront(om, key, value) IN
        /\ Ready /\ HeapAllows(r)
        /\ om' = r.om
        /\ last' = [Called("PushFront", key, value, 0) EXCEPT !.err = r.err]
        /\ UNCHANGED held

CallPushBack ==
    \E key \in K, value \in V :
        LET r == PushBack(om, key, value) IN
        /\ Ready /\ HeapAllows(r)
        /\ om' = r.om
        /\ last' = [Called("PushBack", key, value, 0) EXCEPT !.err = r.err]
        /\ UNCHANGED held

CallInsertAfter ==
    \E key \in K, value \in V, mark \in K :
        LET r == InsertAfter(om, key, value, mark) IN
        /\ Ready /\ HeapAllows(r)
        /\ om' = r.om
        /\ last' = [Called("InsertAfter", key, value, mark) EXCEPT !.err = r.err]
        /\ UNCHANGED held

CallInsertBefore ==
    \E key \in K, value \in V, mark \in K :
        LET r == InsertBefore(om, key, value, mark) IN
        /\ Ready /\ HeapAllows(r)
        /\ om' = r.om
        /\ last' = [Called("InsertBefore", key, value, mark) EXCEPT !.err = r.err]
        /\ UNCHANGED held

CallMoveToFront ==
    \E key \in K :
        LET r == MoveToFront(om, key) IN
        /\ Ready
        /\ om' = r.om
        /\ last' = [Called("MoveToFront", key, 0, 0) EXCEPT !.err = r.err]
        /\ UNCHANGED held

CallMoveToBack ==
    \E key \in K :
        LET r == MoveToBack(om, key) IN
        /\ Ready
        /\ om' = r.om
        /\ last' = [Called("MoveToBack", key, 0, 0) EXCEPT !.err = r.err]
        /\ UNCHANGED held

CallMoveAfter ==
    \E key \in K, mark \in K :
        LET r == MoveAfter(om, key, mark) IN
        /\ Ready
        /\ om' = r.om
        /\ last' = [Called("MoveAfter", key, 0, mark) EXCEPT !.err = r.err]
        /\ UNCHANGED held

CallMoveBefore ==
    \E key \in K, mark \in K :
        LET r == MoveBefore(om, key, mark) IN
        /\ Ready
        /\ om' = r.om
        /\ last' = [Called("MoveBefore", key, 0, mark) EXCEPT !.err = r.err]
        /\ UNCHANGED held

CallUpdate ==
    \E key \in K, value \in V :
        LET r == Update(om, key, value) IN
        /\ Ready
        /\ om' = r.om
        /\ last' = [Called("Update", key, value, 0) EXCEPT
                        !.err = r.err, !.rvalue = r.value]
        /\ UNCHANGED held

CallDelete ==
    \E key \in K :
        LET r == Delete(om, key) IN
        /\ Ready
        /\ om' = r.om
        /\ last' = [Called("Delete", key, 0, 0) EXCEPT
                        !.rvalue = r.value, !.ok = r.ok]
        /\ UNCHANGED held

CallPopFront ==
    LET r == PopFront(om) IN
    /\ Ready
    /\ om' = r.om
    /\ last' = [Called("PopFront", 0, 0, 0) EXCEPT !.ritem = r.item, !.ok = r.ok]
    /\ UNCHANGED held

CallPopBack ==
    LET r == PopBack(om) IN
    /\ Ready
    /\ om' = r.om
    /\ last' = [Called("PopBack", 0, 0, 0) EXCEPT !.ritem = r.item, !.ok = r.ok]
    /\ UNCHANGED held

CallClear ==
    LET r == Clear(om) IN
    /\ Ready
    /\ om' = r.om
    /\ last' = Called("Clear", 0, 0, 0)
    /\ UNCHANGED held

\* The queries: none of them assigns to the table or to the list.

\* Get that moves the key it finds to the front of the list.
CallGet_Touches ==
    \E key \in K :
        LET r == Get(om, key) IN
        /\ Ready
        /\ om' = MoveToFront(om, key).om
        /\ last' = [Called("Get", key, 0, 0) EXCEPT !.rvalue = r.value, !.ok = r.ok]
        /\ UNCHANGED held

CallGet ==
    \E key \in K :
        LET r == Get(om, key) IN
        /\ Ready
        /\ UNCHANGED om
        /\ last' = [Called("Get", key, 0, 0) EXCEPT !.rvalue = r.value, !.ok = r.ok]
        /\ UNCHANGED held

CallFront ==
    LET r == Front(om) IN
    /\ Ready
    /\ UNCHANGED om
    /\ last' = [Called("Front", 0, 0, 0) EXCEPT !.ritem = r.item, !.ok = r.ok]
    /\ UNCHANGED held

CallBack ==
    LET r == Back(om) IN
    /\ Ready
    /\ UNCHANGED om
    /\ last' = [Called("Back", 0, 0, 0) EXCEPT !.ritem = r.item, !.ok = r.ok]
    /\ UNCHANGED held

CallNext ==
    \E key \in K :
        LET r == Next(om, key) IN
        /\ Ready
        /\ UNCHANGED om
        /\ last' = [Called("Next", key, 0, 0) EXCEPT !.ritem = r.item, !.ok = r.ok]
        /\ UNCHANGED held

CallPrev ==
    \E key \in K :
        LET r == Prev(om, key) IN
        /\ Ready
        /\ UNCHANGED om
        /\ last' = [Called("Prev", key, 0, 0) EXCEPT !.ritem = r.item, !.ok = r.ok]
        /\ UNCHANGED held

CallLen ==
    /\ Ready
    /\ UNCHANGED om
    /\ last' = [Called("Len", 0, 0, 0) EXCEPT !.rlen = OMLen(om)]
    /\ UNCHANGED held

CallKeys ==
    /\ Ready
    /\ UNCHANGED om
    /\ last' = [Called("Keys", 0, 0, 0) EXCEPT !.rseq = Keys(om)]
    /\ UNCHANGED held

CallItems ==
    /\ Ready
    /\ UNCHANGED om
    /\ last' = [Called("Items", 0, 0, 0) EXCEPT !.rseq = Items(om)]
    /\ UNCHANGED held

CallMap ==
    /\ Ready
    /\ UNCHANGED om
    /\ last' = [Called("Map", 0, 0, 0) EXCEPT !.rmap = Map(om)]
    /\ UNCHANGED held

\* Range and RangeReverse call f and assign nothing; Filter and Reverse
\* build a new map and leave the receiver to the calls of Front and Next.

CallRange ==
    \E f \in Funcs \cup {NilFunc} :
        LET r == Range(om, f) IN
        /\ Ready
        /\ om' = r.om
        /\ last' = [Called("Range", 0, 0, 0) EXCEPT
                        !.f = f, !.rseq = r.calls, !.panic = r.panic]
        /\ UNCHANGED held

CallRangeReverse ==
    \E f \in Funcs \cup {NilFunc} :
        LET r == RangeReverse(om, f) IN
        /\ Ready
        /\ om' = r.om
        /\ last' = [Called("RangeReverse", 0, 0, 0) EXCEPT
                        !.f = f, !.rseq = r.calls, !.panic = r.panic]
        /\ UNCHANGED held

CallFilter ==
    \E f \in Funcs \cup {NilFunc} :
        LET r == Filter(om, f) IN
        /\ Ready
        /\ om' = r.om
        /\ last' = [Called("Filter", 0, 0, 0) EXCEPT
                        !.f = f, !.out = r.out, !.fresh = r.fresh,
                        !.panic = r.panic]
        /\ UNCHANGED held

CallReverse ==
    LET r == Reverse(om) IN
    /\ Ready
    /\ om' = r.om
    /\ last' = [Called("Reverse", 0, 0, 0) EXCEPT
                    !.out = r.out, !.fresh = r.fresh, !.panic = r.panic]
    /\ UNCHANGED held

\* Filter with a predicate that deletes key from the receiver when it is
\* called on it, and accepts every key or every key but that one.
CallFilterDeleting ==
    \E key \in K :
        \E f \in {KeyIn(K), KeyIn(K \ {key})} :
            LET r == FilterDeleting(om, f, {key}) IN
            /\ Ready
            /\ om' = r.om
            /\ last' = [Called("FilterDeleting", key, 0, 0) EXCEPT
                            !.f = f, !.out = r.out, !.fresh = r.fresh,
                            !.panic = r.panic]
            /\ UNCHANGED held

\* The caller builds a second map from the Items() of this one.
CallNewFromItems ==
    LET r == newFromItems(Items(om)) IN
    /\ Ready
    /\ UNCHANGED om
    /\ last' = [Called("newFromItems", 0, 0, 0) EXCEPT
                    !.rseq = Items(om), !.out = r.om, !.err = r.err]
    /\ UNCHANGED held

\* The caller drops its record of the call and goes on to the next one.
Return ==
    /\ ~Ready
    /\ last' = NoCall
    /\ held' = Nothing
    /\ UNCHANGED om

Step ==
    \/ CallPushFront
    \/ CallPushBack
    \/ CallInsertAfter
    \/ CallInsertBefore
    \/ CallMoveToFront
    \/ CallMoveToBack
    \/ CallMoveAfter
    \/ CallMoveBefore
    \/ CallUpdate
    \/ CallDelete
    \/ CallPopFront
    \/ CallPopBack
    \/ CallClear
    \/ CallGet
    \/ CallFront
    \/ CallBack
    \/ CallNext
    \/ CallPrev
    \/ CallLen
    \/ CallKeys
    \/ CallItems
    \/ CallMap
    \/ CallRange
    \/ CallRangeReverse
    \/ CallFilter
    \/ CallFilterDeleting
    \/ CallReverse
    \/ CallNewFromItems
    \/ Return

Spec == Init /\ [][Step]_vars

(* A caller that keeps what a call returned while it makes its next call:  *)
(* a slice or a Go map (SpecSnapshot), or the map made by Filter or        *)
(* Reverse, which it may then use as the receiver of that call (SpecCopy). *)

\* The calls that may change the map.
Mutate ==
    \/ CallPushFront
    \/ CallPushBack
    \/ CallInsertAfter
    \/ CallInsertBefore
    \/ CallMoveToFront
    \/ CallMoveToBack
    \/ CallMoveAfter
    \/ CallMoveBefore
    \/ CallUpdate
    \/ CallDelete
    \/ CallPopFront
    \/ CallPopBack
    \/ CallClear

\* The caller keeps the slice or the Go map that Keys(), Items() or Map()
\* has returned, and goes on to the next call.
KeepSnapshot ==
    /\ last.op \in {"Keys", "Items", "Map"}
    /\ held' = [Nothing EXCEPT !.kind = last.op, !.seq = last.rseq,
                               !.map = last.rmap, !.of = last.pre]
    /\ last' = NoCall
    /\ UNCHANGED om

StepSnapshot ==
    \/ Mutate
    \/ CallKeys
    \/ CallItems
    \/ CallMap
    \/ KeepSnapshot
    \/ Return

SpecSnapshot == Init /\ [][StepSnapshot]_vars

\* The filter whose result the caller keeps: it accepts the even keys.
isKeyEven == KeyIn({k \in K : k % 2 = 0})

\* The caller keeps the map that Filter() or Reverse() has returned, and
\* goes on to the next call.
KeepCopy ==
    /\ last.op \in {"Filter", "Reverse"}
    /\ last.op = "Filter" => last.f = isKeyEven
    /\ ~last.panic
    /\ held' = [Nothing EXCEPT !.kind = "OrderedMap", !.om = last.out,
                               !.fresh = last.fresh, !.of = last.pre]
    /\ last' = NoCall
    /\ UNCHANGED om

\* The caller makes the map it keeps the receiver of its calls, and keeps
\* the receiver instead; nothing changes hands if they are the same map.
UseOther ==
    /\ Ready
    /\ held.kind = "OrderedMap"
    /\ om' = IF held.fresh THEN held.om ELSE om
    /\ held' = [held EXCEPT !.om = IF held.fresh THEN om ELSE @,
                            !.turned = ~@]
    /\ UNCHANGED last

StepCopy ==
    \/ Mutate
    \/ CallFilter
    \/ CallReverse
    \/ KeepCopy
    \/ UseOther
    \/ Return

SpecCopy == Init /\ [][StepCopy]_vars

(* A caller of an OrderedMap[K, *s], as in TestPointers: the values are    *)
(* references.  The zero value is the nil reference and every other value  *)
(* is the address of an object of the caller, whose contents are a string  *)
(* the caller writes through the reference.  held.seq is the heap: the     *)
(* contents of each object.  held.map is the caller's own record of the    *)
(* reference it has stored under each key (want in TestPointers).          *)
Objects == V \ {ZeroValue}
Contents == {"one", "two"}

\* What is read through reference p.
Deref(p) == IF p = ZeroValue THEN "nil" ELSE held.seq[p]

\* want := &s{A: "one"} for every object, and m := New[int, *s]().
InitPointers ==
    /\ om = New
    /\ last = NoCall
    /\ held = [Nothing EXCEPT !.kind = "objects",
                              !.seq = [p \in Objects |-> "one"]]

\* want.A = c, for an object whose reference is stored in the map: a write
\* of the caller to its own object, in which no operation of the map runs.
WriteObject ==
    \E p \in Objects, c \in Contents :
        /\ Ready
        /\ \E k \in DOMAIN held.map : held.map[k] = p
        /\ held.seq[p] # c
        /\ held' = [held EXCEPT !.seq[p] = c]
        /\ last' = Called("write", 0, p, 0)
        /\ UNCHANGED om

\* The caller notes what the call has done with the references it gave: a
\* successful PushFront, PushBack or Update has stored its value under its
\* key, a successful Delete has dropped the key.
Remember ==
    /\ ~Ready
    /\ held' = [held EXCEPT !.map =
                   IF /\ last.op \in {"PushFront", "PushBack", "Update"}
                      /\ last.err = NilErr
                   THEN MapSet(@, last.key, last.value)
                   ELSE IF last.op = "Delete" /\ last.ok
                   THEN MapDelete(@, last.key)
                   ELSE @]
    /\ last' = NoCall
    /\ UNCHANGED om

StepPointers ==
    \/ CallPushFront
    \/ CallPushBack
    \/ CallUpdate
    \/ CallDelete
    \/ CallMoveToFront
    \/ CallGet
    \/ WriteObject
    \/ Remember

SpecPointers == InitPointers /\ [][StepPointers]_vars

(* Two goroutines that each call PushFront or PushBack once on one map.    *)
(* held.kind says how they use it: "mutex" if every call is made with a    *)
(* lock held from the call to its return (the sync.RWLock of the package   *)
(* comment), "unsynchronised" if not.  held.seq[g] is goroutine g's        *)
(* position in its call: the statement it is to execute next, the call's   *)
(* arguments, the element the list returned to it and the error it         *)
(* returned.  Goroutine g pushes the value g - 1.  The statements of a     *)
(* call are the presence check, the list insertion and the table write.    *)
(* Without the lock the table is read and written concurrently, a data     *)
(* race: the statements interleave in any order, or the runtime's check    *)
(* for concurrent map access stops the program with a fatal error.         *)
Goroutines == {1, 2}
OtherGoroutine(g) == CHOOSE h \in Goroutines : h # g

Idle == [pc |-> "idle", op |-> "none", key |-> 0, e |-> NilE, err |-> NilErr]

\* The goroutine is inside a call.
Running(g) == held.seq[g].pc \in {"check", "insert", "write"}

InitRace ==
    /\ om = New
    /\ last = NoCall
    /\ \E use \in {"mutex", "unsynchronised"} :
           held = [Nothing EXCEPT !.kind = use, !.seq = <<Idle, Idle>>]

\* go m.PushFront(key, g - 1) or go m.PushBack(key, g - 1); with the lock,
\* the call waits until the other goroutine is not inside a call.
GoCall(g) ==
    \E op \in {"PushFront", "PushBack"}, key \in K :
        /\ held.seq[g].pc = "idle"
        /\ held.kind = "mutex" => ~Running(OtherGoroutine(g))
        /\ held' = [held EXCEPT !.seq[g] =
                        [Idle EXCEPT !.pc = "check", !.op = op, !.key = key]]
        /\ UNCHANGED <<om, last>>

\* A presence check that lets every key through.
GoCheck_Skips(g) ==
    /\ held.seq[g].pc = "check"
    /\ held' = [held EXCEPT !.seq[g].pc = "insert"]
    /\ UNCHANGED <<om, last>>

\* if _, ok := m.m[key]; ok { return ErrKeyAlreadyPresent }
GoCheck(g) ==
    /\ held.seq[g].pc = "check"
    /\ held' = [held EXCEPT !.seq[g] =
                    IF @.key \in DOMAIN om.m
                    THEN [@ EXCEPT !.pc = "done", !.err = ErrKeyAlreadyPresent]
                    ELSE [@ EXCEPT !.pc = "insert"]]
    /\ UNCHANGED <<om, last>>

\* m.l.PushFront(newVal) or m.l.PushBack(newVal), the right-hand side of
\* the assignment to m.m[key].
GoInsert(g) ==
    LET c == held.seq[g]
        v == Item(c.key, g - 1)
        r == IF c.op = "PushFront" THEN ListPushFront(om.l, v)
                                   ELSE ListPushBack(om.l, v)
    IN  /\ c.pc = "insert"
        /\ FreeNodes(om.l) # {}
        /\ om' = [om EXCEPT !.l = r.l]
        /\ held' = [held EXCEPT !.seq[g] = [@ EXCEPT !.pc = "write", !.e = r.e]]
        /\ UNCHANGED last

\* m.m[key] = <the element>; return nil
GoWrite(g) ==
    LET c == held.seq[g] IN
    /\ c.pc = "write"
    /\ om' = [om EXCEPT !.m = MapSet(om.m, c.key, c.e)]
    /\ held' = [held EXCEPT !.seq[g] = [@ EXCEPT !.pc = "done", !.err = NilErr]]
    /\ UNCHANGED last

\* The runtime finds the table written by g while the other goroutine reads
\* or writes it: "fatal error: concurrent map writes" (or "concurrent map
\* read and map write") ends the program.
GoFatal(g) ==
    /\ held.seq[g].pc = "write"
    /\ held.seq[OtherGoroutine(g)].pc \in {"check", "write"}
    /\ held' = [held EXCEPT !.seq = [h \in Goroutines |->
                                        [held.seq[h] EXCEPT !.pc = "fatal"]]]
    /\ UNCHANGED <<om, last>>

StepRace ==
    \E g \in Goroutines :
        \/ GoCall(g)
        \/ GoCheck(g)
        \/ GoInsert(g)
        \/ GoWrite(g)
        \/ GoFatal(g)

SpecRace == InitRace /\ [][StepRace]_vars

(* ------------------------------ observations --------------------------- *)

\* The elements linked in the list, front to back, and their keys.
ListNodes(o) == WalkNext(o.l, ListFront(o.l), MaxWalk)
NodeKeys(o) == {o.l.value[ListNodes(o)[i]].Key : i \in 1..Len(ListNodes(o))}

\* The loops of checkPrevNext: from Front() along Next(item.Key), and from
\* Back() along Prev(item.Key), collecting the items met.
RECURSIVE ForwardFrom(_, _, _)
ForwardFrom(o, r, fuel) ==
    IF ~r.ok \/ fuel = 0 THEN << >>
    ELSE <<r.item>> \o ForwardFrom(o, Next(o, r.item.Key), fuel - 1)
Forward(o) == ForwardFrom(o, Front(o), MaxWalk)

RECURSIVE BackwardFrom(_, _, _)
BackwardFrom(o, r, fuel) ==
    IF ~r.ok \/ fuel = 0 THEN << >>
    ELSE <<r.item>> \o BackwardFrom(o, Prev(o, r.item.Key), fuel - 1)
Backward(o) == BackwardFrom(o, Back(o), MaxWalk)

\* A sequence back to front.
Reversed(s) == [i \in 1..Len(s) |-> s[Len(s) + 1 - i]]

\* The items of s whose key is not key, in their order.
Without(s, key) == SelectSeq(s, LAMBDA it : it.Key # key)

\* What a query returns when it finds item / value.
Found(item) == [item |-> item, ok |-> TRUE]
NotFound == [item |-> ZeroItem, ok |-> FALSE]

\* The entry of key in map o.
Entry(o, key) == Item(key, Get(o, key).value)

(* -------------------------------- claims ------------------------------- *)

\* C1: in every reachable state the key set of the lookup table equals the
\* set of keys held by the list's nodes, and Len() equals the number of
\* table entries, the number of nodes linked in the list and the list's
\* own counter.
C1_TableMatchesList ==
    /\ DOMAIN om.m = NodeKeys(om)
    /\ OMLen(om) = Cardinality(DOMAIN om.m)
    /\ OMLen(om) = Len(ListNodes(om))
    /\ OMLen(om) = ListLen(om.l)

\* A full map on which a further PushBack has just failed.
C1_Witness ==
    /\ last.op = "PushBack" /\ last.err = ErrKeyAlreadyPresent
    /\ OMLen(om) = NumKeys

\* C2: in every reachable state no two list nodes hold the same key, and
\* the table maps every key to a node that is linked in the list and whose
\* stored key is that key.
C2_UniqueKeysExactNodes ==
    LET es == ListNodes(om) IN
    /\ \A i, j \in 1..Len(es) :
           i # j => om.l.value[es[i]].Key # om.l.value[es[j]].Key
    /\ \A k \in DOMAIN om.m :
           /\ \E i \in 1..Len(es) : es[i] = om.m[k]
           /\ om.l.value[om.m[k]].Key = k

\* A positional insert has just filled the map.
C2_Witness ==
    /\ last.op = "InsertBefore" /\ last.err = NilErr
    /\ OMLen(om) = NumKeys

\* C3: in every reachable state the walk from Front() along Next(key)
\* equals the reverse of the walk from Back() along Prev(key); both equal
\* Items() and have Len() elements.
C3_TraversalsAgree ==
    /\ Forward(om) = Reversed(Backward(om))
    /\ Forward(om) = Items(om)
    /\ Reversed(Backward(om)) = Items(om)
    /\ Len(Forward(om)) = OMLen(om)
    /\ Len(Backward(om)) = OMLen(om)

\* A full map whose order a MoveAfter has just changed.
C3_Witness ==
    /\ last.op = "MoveAfter" /\ last.err = NilErr
    /\ OMLen(om) = NumKeys
    /\ Items(om) # Items(last.pre)

\* The call on record: operation op with key absent from / present in the
\* map it was made on.
CalledAbsent(op) == last.op = op /\ last.key \notin DOMAIN last.pre.m
CalledPresent(op) == last.op = op /\ last.key \in DOMAIN last.pre.m

\* The map is as it was before the call on record: same Items(), same
\* Len(), and Get returns the same for every key.
Unchanged ==
    /\ Items(om) = Items(last.pre)
    /\ OMLen(om) = OMLen(last.pre)
    /\ \A k \in K : Get(om, k) = Get(last.pre, k)

\* C4: PushBack(k, v) with k absent returns nil and Items() becomes the
\* old Items() with (k, v) appended; PushFront(k, v) with k absent returns
\* nil and Items() becomes (k, v) followed by the old Items().
C4_PushAtEnds ==
    /\ CalledAbsent("PushBack") =>
           /\ last.err = NilErr
           /\ Items(om) = Append(Items(last.pre), Item(last.key, last.value))
    /\ CalledAbsent("PushFront") =>
           /\ last.err = NilErr
           /\ Items(om) = <<Item(last.key, last.value)>> \o Items(last.pre)

\* PushFront of an absent key onto a map of two entries.
C4_Witness ==
    /\ CalledAbsent("PushFront")
    /\ OMLen(last.pre) = 2
    /\ OMLen(om) = 3

\* C5: PushFront(k, v) and PushBack(k, v) with k present return
\* ErrKeyAlreadyPresent and leave the map unchanged; the value stored
\* under k is not replaced by v.
C5_PushPresentFails ==
    (CalledPresent("PushFront") \/ CalledPresent("PushBack")) =>
        /\ last.err = ErrKeyAlreadyPresent
        /\ Unchanged
        /\ om = last.pre

\* PushBack of a present key with a value other than the stored one.
C5_Witness ==
    /\ CalledPresent("PushBack")
    /\ Get(last.pre, last.key).value # last.value
    /\ OMLen(om) >= 2

\* C6: with k absent and mark present, InsertAfter(k, v, mark) returns nil,
\* Next(mark) is then (k, v) and Prev(k) is mark's entry; InsertBefore
\* returns nil, Prev(mark) is then (k, v) and Next(k) is mark's entry.  Len()
\* grows by one and the other entries keep their values and order.
C6_InsertNextToMark ==
    LET item == Item(last.key, last.value)
        hit == last.key \notin DOMAIN last.pre.m /\ last.mark \in DOMAIN last.pre.m
    IN
    /\ (last.op = "InsertAfter" /\ hit) =>
           /\ last.err = NilErr
           /\ Next(om, last.mark) = Found(item)
           /\ Prev(om, last.key) = Found(Entry(last.pre, last.mark))
           /\ OMLen(om) = OMLen(last.pre) + 1
           /\ Without(Items(om), last.key) = Items(last.pre)
    /\ (last.op = "InsertBefore" /\ hit) =>
           /\ last.err = NilErr
           /\ Prev(om, last.mark) = Found(item)
           /\ Next(om, last.key) = Found(Entry(last.pre, last.mark))
           /\ OMLen(om) = OMLen(last.pre) + 1
           /\ Without(Items(om), last.key) = Items(last.pre)

\* InsertAfter has put a key between two entries.
C6_Witness ==
    /\ CalledAbsent("InsertAfter") /\ last.err = NilErr
    /\ Next(om, last.key).ok
    /\ Prev(om, last.key).ok

\* C7: whenever InsertAfter or InsertBefore returns an error, the error is
\* ErrKeyAlreadyPresent or ErrMarkKeyMissing and the map is unchanged.
C7_InsertFailureNoEffect ==
    (last.op \in {"InsertAfter", "InsertBefore"} /\ last.err # NilErr) =>
        /\ last.err \in {ErrKeyAlreadyPresent, ErrMarkKeyMissing}
        /\ Unchanged
        /\ om = last.pre

\* InsertAfter of an absent key after an absent mark on a non-empty map.
C7_Witness ==
    /\ CalledAbsent("InsertAfter") /\ last.err = ErrMarkKeyMissing
    /\ OMLen(om) >= 1

\* C8: InsertAfter and InsertBefore return ErrKeyAlreadyPresent whenever
\* the key is present, also when the mark is absent; they return
\* ErrMarkKeyMissing exactly when the key is absent and the mark is absent.
C8_KeyCheckedBeforeMark ==
    last.op \in {"InsertAfter", "InsertBefore"} =>
        /\ last.key \in DOMAIN last.pre.m => last.err = ErrKeyAlreadyPresent
        /\ last.err = ErrMarkKeyMissing <=>
               /\ last.key \notin DOMAIN last.pre.m
               /\ last.mark \notin DOMAIN last.pre.m

\* InsertBefore of a present key before an absent mark.
C8_Witness ==
    /\ CalledPresent("InsertBefore")
    /\ last.mark \notin DOMAIN last.pre.m
    /\ last.mark # last.key

\* C9: MoveToFront(k) with k present returns nil and Front() is then k's
\* entry; MoveToBack(k) returns nil and Back() is then k's entry.  The
\* other entries keep their order relative to each other.
C9_MoveToEnds ==
    /\ CalledPresent("MoveToFront") =>
           /\ last.err = NilErr
           /\ Front(om) = Found(Entry(last.pre, last.key))
           /\ Without(Items(om), last.key) = Without(Items(last.pre), last.key)
    /\ CalledPresent("MoveToBack") =>
           /\ last.err = NilErr
           /\ Back(om) = Found(Entry(last.pre, last.key))
           /\ Without(Items(om), last.key) = Without(Items(last.pre), last.key)

\* MoveToFront of the back key of a full map.
C9_Witness ==
    /\ CalledPresent("MoveToFront")
    /\ OMLen(om) = NumKeys
    /\ Back(last.pre).item.Key = last.key

\* C10: for distinct present keys k and mark, MoveAfter(k, mark) returns
\* nil and Next(mark) is then k's entry; MoveBefore(k, mark) returns nil and
\* Prev(mark) is then k's entry.  The entries other than k keep their
\* order, and the order is unchanged when k already was immediately after
\* (before) mark.
C10_MoveNextToMark ==
    LET hit == /\ last.key # last.mark
               /\ last.key \in DOMAIN last.pre.m
               /\ last.mark \in DOMAIN last.pre.m
    IN
    /\ (last.op = "MoveAfter" /\ hit) =>
           /\ last.err = NilErr
           /\ Next(om, last.mark) = Found(Entry(last.pre, last.key))
           /\ Without(Items(om), last.key) = Without(Items(last.pre), last.key)
           /\ Next(last.pre, last.mark) = Found(Entry(last.pre, last.key))
                  => Items(om) = Items(last.pre)
    /\ (last.op = "MoveBefore" /\ hit) =>
           /\ last.err = NilErr
           /\ Prev(om, last.mark) = Found(Entry(last.pre, last.key))
           /\ Without(Items(om), last.key) = Without(Items(last.pre), last.key)
           /\ Prev(last.pre, last.mark) = Found(Entry(last.pre, last.key))
                  => Items(om) = Items(last.pre)

\* MoveBefore has taken the back key of a full map to the front.
C10_Witness ==
    /\ CalledPresent("MoveBefore") /\ last.key # last.mark
    /\ OMLen(om) = NumKeys
    /\ Back(last.pre).item.Key = last.key
    /\ Front(om).item.Key = last.key

\* The four operations that reposition an entry.
MoveOps == {"MoveToFront", "MoveToBack", "MoveAfter", "MoveBefore"}

\* C11: every MoveToFront, MoveToBack, MoveAfter or MoveBefore, successful
\* or not, leaves the key set, the value of every key and Len() unchanged.
C11_MovesKeepContent ==
    last.op \in MoveOps =>
        /\ DOMAIN om.m = DOMAIN last.pre.m
        /\ NodeKeys(om) = NodeKeys(last.pre)
        /\ \A k \in K : Get(om, k) = Get(last.pre, k)
        /\ OMLen(om) = OMLen(last.pre)
        /\ Len(Items(om)) = Len(Items(last.pre))

\* MoveToBack has changed the order of a full map.
C11_Witness ==
    /\ last.op = "MoveToBack" /\ last.err = NilErr
    /\ OMLen(om) = NumKeys
    /\ Items(om) # Items(last.pre)

C13_MoveErrorsAsDocumented ==
    (last.op \in {"MoveAfter", "MoveBefore"} /\ last.key # last.mark) =>
        /\ last.key \notin DOMAIN last.pre.m => last.err = ErrKeyMissing
        /\ (/\ last.key \in DOMAIN last.pre.m
            /\ last.mark \notin DOMAIN last.pre.m) =>
               last.err = ErrMarkKeyMissing

C15_MoveToEndMissing ==
    (CalledAbsent("MoveToFront") \/ CalledAbsent("MoveToBack")) =>
        /\ last.err = ErrKeyMissing
        /\ Unchanged
        /\ om = last.pre

\* MoveToBack of an absent key on a map of two entries.
C15_Witness ==
    /\ CalledAbsent("MoveToBack")
    /\ OMLen(om) = 2

\* C16: MoveToFront(k) with k already at the front leaves Items()
\* unchanged, and a second MoveToFront(k) gives the same state as the
\* first; the same holds for MoveToBack and the back key.
C16_MoveToEndIdempotent ==
    /\ CalledPresent("MoveToFront") =>
           /\ Front(last.pre).item.Key = last.key => Items(om) = Items(last.pre)
           /\ MoveToFront(om, last.key).err = NilErr
           /\ MoveToFront(om, last.key).om = om
           /\ Items(MoveToFront(om, last.key).om) = Items(om)
    /\ CalledPresent("MoveToBack") =>
           /\ Back(last.pre).item.Key = last.key => Items(om) = Items(last.pre)
           /\ MoveToBack(om, last.key).err = NilErr
           /\ MoveToBack(om, last.key).om = om
           /\ Items(MoveToBack(om, last.key).om) = Items(om)

\* MoveToBack of the back key of a full map.
C16_Witness ==
    /\ CalledPresent("MoveToBack")
    /\ OMLen(om) = NumKeys
    /\ Back(last.pre).item.Key = last.key

\* C17: Delete(k) with k present returns (the value stored under k, true);
\* Get(k) then reports not-found, Len() is one less and the remaining
\* entries keep values and order, and a second Delete(k) returns false.
\* Delete(k) with k absent returns (zero value, false) and leaves the map
\* unchanged.
C17_Delete ==
    /\ CalledPresent("Delete") =>
           /\ last.ok
           /\ last.rvalue = Get(last.pre, last.key).value
           /\ Get(om, last.key) = [value |-> ZeroValue, ok |-> FALSE]
           /\ OMLen(om) = OMLen(last.pre) - 1
           /\ Items(om) = Without(Items(last.pre), last.key)
           /\ ~Delete(om, last.key).ok
           /\ Delete(om, last.key).value = ZeroValue
           /\ Delete(om, last.key).om = om
    /\ CalledAbsent("Delete") =>
           /\ ~last.ok
           /\ last.rvalue = ZeroValue
           /\ Unchanged
           /\ om = last.pre

\* Delete has removed the middle entry of a full map, whose value was not
\* the zero value.
C17_Witness ==
    /\ CalledPresent("Delete")
    /\ OMLen(last.pre) = NumKeys
    /\ Next(last.pre, last.key).ok /\ Prev(last.pre, last.key).ok
    /\ last.rvalue # ZeroValue

\* C18: on a non-empty map PopFront() returns (the entry Front() would
\* return, true) and PopBack() (the entry Back() would return, true); the
\* returned key is then absent, Len() is one less and the remaining
\* entries keep their order.  On an empty map both return (zero Item,
\* false) and leave the map empty.
C18_Pop ==
    /\ (last.op = "PopFront" /\ OMLen(last.pre) > 0) =>
           /\ last.ok
           /\ last.ritem = Front(last.pre).item
           /\ ~Get(om, last.ritem.Key).ok
           /\ OMLen(om) = OMLen(last.pre) - 1
           /\ Items(om) = Tail(Items(last.pre))
    /\ (last.op = "PopBack" /\ OMLen(last.pre) > 0) =>
           /\ last.ok
           /\ last.ritem = Back(last.pre).item
           /\ ~Get(om, last.ritem.Key).ok
           /\ OMLen(om) = OMLen(last.pre) - 1
           /\ Items(om) = SubSeq(Items(last.pre), 1, OMLen(last.pre) - 1)
    /\ (last.op \in {"PopFront", "PopBack"} /\ OMLen(last.pre) = 0) =>
           /\ ~last.ok
           /\ last.ritem = ZeroItem
           /\ OMLen(om) = 0
           /\ Items(om) = << >>
           /\ om = last.pre

\* PopBack on a full map whose back entry is not the zero Item.
C18_Witness ==
    /\ last.op = "PopBack" /\ last.ok
    /\ OMLen(last.pre) = NumKeys
    /\ last.ritem # ZeroItem

\* C19: Update(k, v) with k present returns (the value stored before, nil);
\* Get(k) then returns v, and the order of the keys, the values of the
\* other keys and Len() are unchanged.  Update with k absent returns
\* ErrKeyMissing, does not insert k and leaves the map unchanged.
C19_Update ==
    /\ CalledPresent("Update") =>
           /\ last.err = NilErr
           /\ last.rvalue = Get(last.pre, last.key).value
           /\ Get(om, last.key) = [value |-> last.value, ok |-> TRUE]
           /\ Keys(om) = Keys(last.pre)
           /\ \A k \in K \ {last.key} : Get(om, k) = Get(last.pre, k)
           /\ OMLen(om) = OMLen(last.pre)
    /\ CalledAbsent("Update") =>
           /\ last.err = ErrKeyMissing
           /\ ~Get(om, last.key).ok
           /\ Unchanged
           /\ om = last.pre

\* Update has changed the value of the middle entry of a full map.
C19_Witness ==
    /\ CalledPresent("Update")
    /\ OMLen(om) = NumKeys
    /\ Next(om, last.key).ok /\ Prev(om, last.key).ok
    /\ last.rvalue # last.value

\* The operations that only read the map, and those that insert a key.
QueryOps == {"Get", "Front", "Back", "Next", "Prev", "Len", "Keys", "Items", "Map"}
InsertOps == {"PushFront", "PushBack", "InsertAfter", "InsertBefore"}

\* What Get(k) has to return after the call on record, from what it
\* returned before it: the value the call stored under k, not-found if
\* the call, or the predicate the call was given, removed k, and otherwise
\* what it returned before.
StoredAfterCall(k) ==
    IF /\ last.op \in InsertOps \cup {"Update"}
       /\ last.err = NilErr /\ k = last.key
    THEN [value |-> last.value, ok |-> TRUE]
    ELSE IF \/ last.op = "Delete" /\ last.ok /\ k = last.key
            \/ last.op \in {"PopFront", "PopBack"} /\ last.ok /\ k = last.ritem.Key
            \/ last.op = "Clear"
            \/ last.op = "FilterDeleting" /\ k = last.key
    THEN [value |-> ZeroValue, ok |-> FALSE]
    ELSE Get(last.pre, k)

\* C20: Get, Front, Back, Next, Prev, Len, Keys, Items and Map never modify
\* the map, whatever key they are given: Items() and Len() are the same
\* after the call as before.  Get(k) returns the value last stored for k
\* by an insert or Update with ok = true when k is present, and the zero
\* value with ok = false when k is absent.
C20_QueriesReadOnly ==
    /\ last.op \in QueryOps =>
           /\ Items(om) = Items(last.pre)
           /\ OMLen(om) = OMLen(last.pre)
           /\ om = last.pre
    /\ ~Ready => \A k \in K : Get(om, k) = StoredAfterCall(k)
    /\ \A k \in K : Get(om, k).ok <=> k \in DOMAIN om.m
    /\ \A k \in K : ~Get(om, k).ok => Get(om, k).value = ZeroValue
    /\ last.op = "Get" =>
           [value |-> last.rvalue, ok |-> last.ok] = Get(om, last.key)

\* Get has found a value other than the zero value under the back key of
\* a full map.
C20_Witness ==
    /\ CalledPresent("Get") /\ last.ok
    /\ last.rvalue # ZeroValue
    /\ OMLen(om) = NumKeys
    /\ Back(om).item.Key = last.key

\* The claims about what the queries return on a map are stated of the
\* map the caller is about to call (Ready): every map of a reachable state
\* is the map of such a state, since a call leaves the caller with the
\* map that Return then leaves alone.

\* What the query on record returned.
Returned == [item |-> last.ritem, ok |-> last.ok]

\* C21: Front() and Back() report not-found exactly when the map is empty;
\* on a non-empty map Front() is the first and Back() the last element of
\* Items(), Prev of Front()'s key and Next of Back()'s key report
\* not-found, so on a single-entry map both Prev and Next of its key do.
C21_EndsOfMap ==
    /\ Ready =>
           /\ Front(om).ok <=> OMLen(om) # 0
           /\ Back(om).ok <=> OMLen(om) # 0
           /\ OMLen(om) = 0 => Front(om) = NotFound /\ Back(om) = NotFound
           /\ OMLen(om) # 0 =>
                  /\ Front(om) = Found(Items(om)[1])
                  /\ Back(om) = Found(Items(om)[Len(Items(om))])
                  /\ Prev(om, Front(om).item.Key) = NotFound
                  /\ Next(om, Back(om).item.Key) = NotFound
           /\ OMLen(om) = 1 =>
                  \A k \in DOMAIN om.m :
                      Prev(om, k) = NotFound /\ Next(om, k) = NotFound
    /\ last.op = "Front" => Returned = Front(om)
    /\ last.op = "Back" => Returned = Back(om)
    /\ last.op = "Prev" => Returned = Prev(om, last.key)
    /\ last.op = "Next" => Returned = Next(om, last.key)

\* Back() has returned the last item of a full map, which is not Front()'s.
C21_Witness ==
    /\ last.op = "Back" /\ last.ok
    /\ OMLen(om) = NumKeys
    /\ last.ritem = Items(om)[NumKeys]
    /\ last.ritem # Front(om).item
    /\ Next(om, last.ritem.Key) = NotFound

\* The place of the item with key key in s, 0 if it has none.
PositionIn(s, key) ==
    IF \E i \in 1..Len(s) : s[i].Key = key
    THEN CHOOSE i \in 1..Len(s) : s[i].Key = key
    ELSE 0
Position(o, key) == PositionIn(Items(o), key)

\* C22: Next(k) returns the entry right after k in Items() with ok = true
\* when k is present and not last, and (zero Item, false) when k is absent
\* or last; Prev(k) returns the entry right before k, and (zero Item,
\* false) when k is absent or first.  Next(a) has key b if and only if
\* Prev(b) has key a.
C22_NextPrevAdjacent ==
    LET its == Items(om)
        n == Len(its)
    IN  /\ Ready =>
               /\ {its[i].Key : i \in 1..n} = DOMAIN om.m
               /\ \A i \in 1..n :
                      /\ Next(om, its[i].Key) =
                             IF i < n THEN Found(its[i + 1]) ELSE NotFound
                      /\ Prev(om, its[i].Key) =
                             IF i > 1 THEN Found(its[i - 1]) ELSE NotFound
               /\ \A k \in K \ DOMAIN om.m :
                      Next(om, k) = NotFound /\ Prev(om, k) = NotFound
               /\ \A a, b \in K :
                      (Next(om, a).ok /\ Next(om, a).item.Key = b)
                          <=> (Prev(om, b).ok /\ Prev(om, b).item.Key = a)
        /\ last.op = "Next" =>
               Returned = IF last.key \in DOMAIN om.m /\ Position(om, last.key) < n
                          THEN Found(its[Position(om, last.key) + 1])
                          ELSE NotFound
        /\ last.op = "Prev" =>
               Returned = IF last.key \in DOMAIN om.m /\ Position(om, last.key) > 1
                          THEN Found(its[Position(om, last.key) - 1])
                          ELSE NotFound

\* Next has returned the middle entry's successor on a full map.
C22_Witness ==
    /\ last.op = "Next" /\ last.ok
    /\ OMLen(om) = NumKeys
    /\ Position(om, last.key) = 2
    /\ Prev(om, last.ritem.Key) = Found(Items(om)[2])

\* The items of s up to and including the first one f returns false on,
\* all of s if there is none.
VisitedPrefix(s, f) ==
    LET Stops(i) == ~Apply(f, s[i].Key, s[i].Value) IN
    IF \E i \in 1..Len(s) : Stops(i)
    THEN SubSeq(s, 1, CHOOSE i \in 1..Len(s) :
                          Stops(i) /\ \A j \in 1..(i - 1) : ~Stops(j))
    ELSE s

\* C25: Range(f) calls f on the entries front to back and RangeReverse(f)
\* back to front, and stops right after the first call in which f returns
\* false: the entries visited are the prefix of Items() (of the reversed
\* Items()) up to and including the first entry on which f returns false,
\* or all Len() entries if f always returns true.  On an empty map f is
\* never called.
C25_RangeStopsAtFalse ==
    /\ last.op = "Range" /\ ~last.f.nil =>
           last.rseq = VisitedPrefix(Items(last.pre), last.f)
    /\ last.op = "RangeReverse" /\ ~last.f.nil =>
           last.rseq = VisitedPrefix(Reversed(Items(last.pre)), last.f)
    /\ last.op \in {"Range", "RangeReverse"} /\ ~last.f.nil =>
           LET n == Len(last.rseq)
               Ok(i) == Apply(last.f, last.rseq[i].Key, last.rseq[i].Value)
           IN  /\ \A i \in 1..(n - 1) : Ok(i)
               /\ n < OMLen(last.pre) => ~Ok(n)
               /\ (\A i \in 1..n : Ok(i)) => n = OMLen(last.pre)
               /\ OMLen(last.pre) = 0 => n = 0
               /\ om = last.pre

\* RangeReverse has stopped at the second entry from the back of a full map.
C25_Witness ==
    /\ last.op = "RangeReverse"
    /\ OMLen(last.pre) = NumKeys
    /\ Len(last.rseq) = 2
    /\ last.rseq[1] = Back(om).item
    /\ last.rseq[2] = Prev(om, Back(om).item.Key).item

\* f accepts the item: it is nil or returns true on it.
Accepted(f, it) == f.nil \/ Apply(f, it.Key, it.Value)

\* C26: for a predicate f that does not change the map, Filter(f) returns
\* a map whose Items() is the subsequence of the source's Items() on which
\* f is true, in the source's order; a nil f gives a copy with the same
\* Items().
C26_Filter ==
    last.op = "Filter" =>
        /\ ~last.panic
        /\ Items(last.out) =
               SelectSeq(Items(last.pre), LAMBDA it : Accepted(last.f, it))
        /\ last.f.nil => Items(last.out) = Items(last.pre)
        /\ OMLen(last.out) = Len(Items(last.out))
        /\ \A k \in K :
               Get(last.out, k) =
                   IF Get(last.pre, k).ok /\ Accepted(last.f, Entry(last.pre, k))
                   THEN Get(last.pre, k)
                   ELSE [value |-> ZeroValue, ok |-> FALSE]

\* Filter has kept the first and the last entry of a full map and dropped
\* the one between them.
C26_Witness ==
    /\ last.op = "Filter" /\ ~last.f.nil
    /\ OMLen(last.pre) = NumKeys
    /\ Len(Items(last.out)) = 2
    /\ Items(last.out)[1] = Items(last.pre)[1]
    /\ Items(last.out)[2] = Items(last.pre)[NumKeys]

\* C27: Reverse() returns a map whose Items() is the source's Items() in
\* reverse order, with the same keys, values and Len(); Reverse() of that
\* map has the source's Items(), and Reverse() of an empty map is empty.
C27_Reverse ==
    last.op = "Reverse" =>
        /\ ~last.panic
        /\ Items(last.out) = Reversed(Items(last.pre))
        /\ DOMAIN last.out.m = DOMAIN last.pre.m
        /\ \A k \in K : Get(last.out, k) = Get(last.pre, k)
        /\ OMLen(last.out) = OMLen(last.pre)
        /\ ~Reverse(last.out).panic
        /\ Items(Reverse(last.out).out) = Items(last.pre)
        /\ OMLen(last.pre) = 0 =>
               OMLen(last.out) = 0 /\ Items(last.out) = << >>

\* Reverse of a full map whose values are not all the same.
C27_Witness ==
    /\ last.op = "Reverse"
    /\ OMLen(last.pre) = NumKeys
    /\ Items(last.out)[1] = Items(last.pre)[NumKeys]
    /\ Items(last.out)[1].Value # Items(last.out)[NumKeys].Value

\* C29: for every reachable map m, a new map on which PushBack(key, value)
\* is called for each element of m.Items() in order accepts every call
\* and has the Items(), Keys(), Map() and Len() of m.
C29_ItemsRoundTrip ==
    /\ Ready =>
           LET r == newFromItems(Items(om)) IN
           /\ r.err = NilErr
           /\ Items(r.om) = Items(om)
           /\ Keys(r.om) = Keys(om)
           /\ Map(r.om) = Map(om)
           /\ OMLen(r.om) = OMLen(om)
    /\ last.op = "newFromItems" =>
           /\ last.err = NilErr
           /\ last.rseq = Items(last.pre)
           /\ Items(last.out) = last.rseq
           /\ Keys(last.out) = Keys(last.pre)
           /\ Map(last.out) = Map(last.pre)
           /\ OMLen(last.out) = OMLen(last.pre)

\* A second map built from the Items() of a full map whose keys are not
\* in increasing order and whose values are not all the same.
C29_Witness ==
    /\ last.op = "newFromItems"
    /\ Len(last.rseq) = NumKeys
    /\ last.rseq[1].Key > last.rseq[NumKeys].Key
    /\ last.rseq[1].Value # last.rseq[NumKeys].Value
    /\ Items(last.out) = last.rseq

\* C30: Clear() empties the table and the list from any reachable state:
\* afterwards Len() is 0, Items() is empty, Front() and Back() report
\* not-found and Get reports not-found for every key.  The map then
\* behaves like a new one: a key present before Clear is inserted again
\* without ErrKeyAlreadyPresent.  Clear on an empty map changes nothing.
C30_Clear ==
    last.op = "Clear" =>
        /\ OMLen(om) = 0
        /\ Items(om) = << >>
        /\ Keys(om) = << >>
        /\ Front(om) = NotFound /\ Back(om) = NotFound
        /\ \A k \in K : Get(om, k) = [value |-> ZeroValue, ok |-> FALSE]
        /\ \A k \in K, v \in V :
               /\ PushBack(om, k, v).err = NilErr
               /\ PushFront(om, k, v).err = NilErr
               /\ Items(PushBack(om, k, v).om) = Items(PushBack(New, k, v).om)
               /\ Items(PushFront(om, k, v).om) = Items(PushFront(New, k, v).om)
               /\ \A mark \in K :
                      /\ InsertAfter(om, k, v, mark).err = InsertAfter(New, k, v, mark).err
                      /\ InsertBefore(om, k, v, mark).err = InsertBefore(New, k, v, mark).err
               /\ Update(om, k, v).err = ErrKeyMissing
        /\ \A k \in K : /\ MoveToFront(om, k).err = ErrKeyMissing
                        /\ MoveToBack(om, k).err = ErrKeyMissing
                        /\ ~Delete(om, k).ok
        /\ ~PopFront(om).ok /\ ~PopBack(om).ok
        /\ OMLen(last.pre) = 0 => Unchanged

\* Clear of a full map.
C30_Witness ==
    /\ last.op = "Clear"
    /\ OMLen(last.pre) = NumKeys
    /\ OMLen(om) = 0

\* The calls that may change the map they are made on.
MutatingOps ==
    {"PushFront", "PushBack", "InsertAfter", "InsertBefore", "MoveToFront",
     "MoveToBack", "MoveAfter", "MoveBefore", "Update", "Delete", "PopFront",
     "PopBack", "Clear"}

\* The keys of the items of s, in their order.
KeysOf(s) == [i \in 1..Len(s) |-> s[i].Key]

\* C23: Keys() and Items() return all keys / all entries in front-to-back
\* order, Keys() being the keys of Items() and both of length Len(); the
\* slice returned is a new one, so a slice obtained earlier is as it was
\* after any later mutation of the map.
C23_KeysItemsSnapshots ==
    /\ Ready =>
           /\ Keys(om) = KeysOf(Items(om))
           /\ Len(Keys(om)) = OMLen(om)
           /\ Len(Items(om)) = OMLen(om)
           /\ Items(om) = Forward(om)
           /\ {Keys(om)[i] : i \in 1..Len(Keys(om))} = DOMAIN om.m
    /\ last.op = "Keys" => last.rseq = KeysOf(Forward(last.pre))
    /\ last.op = "Items" => last.rseq = Forward(last.pre)
    /\ held.kind = "Keys" => held.seq = Keys(held.of)
    /\ held.kind = "Items" => held.seq = Items(held.of)
    /\ held.kind \in {"Keys", "Items"} /\ last.op \in MutatingOps =>
           held.of = last.pre

\* The caller keeps the Items() of a full map from which a key has since
\* been deleted.
C23_Witness ==
    /\ held.kind = "Items"
    /\ Len(held.seq) = NumKeys
    /\ last.op = "Delete" /\ last.ok
    /\ Items(om) = Without(held.seq, last.key)
    /\ Items(om) # held.seq

\* C24: Map() returns a Go map whose keys are exactly the keys of the
\* ordered map and whose value for each key k is what Get(k) returns at
\* the time of the call; later mutations of the ordered map (insert,
\* delete, Update, Clear) do not change a Go map already returned.
C24_MapSnapshot ==
    /\ Ready =>
           /\ DOMAIN Map(om) = {k \in K : Get(om, k).ok}
           /\ \A k \in DOMAIN Map(om) : Map(om)[k] = Get(om, k).value
    /\ last.op = "Map" =>
           /\ DOMAIN last.rmap = {k \in K : Get(last.pre, k).ok}
           /\ \A k \in DOMAIN last.rmap : last.rmap[k] = Get(last.pre, k).value
    /\ held.kind = "Map" =>
           /\ DOMAIN held.map = {k \in K : Get(held.of, k).ok}
           /\ \A k \in DOMAIN held.map : held.map[k] = Get(held.of, k).value
    /\ held.kind = "Map" /\ last.op \in MutatingOps => held.of = last.pre

\* The caller keeps the Map() of a full map in which a value has since
\* been updated.
C24_Witness ==
    /\ held.kind = "Map"
    /\ DOMAIN held.map = K
    /\ last.op = "Update" /\ last.err = NilErr
    /\ held.map[last.key] = last.rvalue
    /\ Get(om, last.key).value # held.map[last.key]

\* The map the caller keeps, which is the receiver if Filter or Reverse
\* returned the receiver.
Other == IF held.fresh THEN held.om ELSE om

\* C28: Filter and Reverse leave the source map as it was and return
\* another map: after the call the source's Items() and Len() are as
\* before; any later mutating operation on the result leaves the source's
\* Items() as they were, and any later mutating operation on the source
\* leaves the result's Items() as they were.
C28_CopiesIndependent ==
    /\ last.op \in {"Filter", "Reverse"} =>
           /\ Items(om) = Items(last.pre)
           /\ OMLen(om) = OMLen(last.pre)
           /\ \A k \in K : Get(om, k) = Get(last.pre, k)
           /\ om = last.pre
    /\ held.kind = "OrderedMap" =>
           /\ Items(Other) = Items(held.om)
           /\ OMLen(Other) = OMLen(held.om)
           /\ Ready => Items(IF held.turned THEN Other ELSE om) = Items(held.of)
           /\ last.op \in MutatingOps =>
                  Items(IF held.turned THEN Other ELSE last.pre) = Items(held.of)

\* The caller has pushed a key to the front of the map Filter returned,
\* which held every entry of the source but one, and keeps the source.
C28_Witness ==
    /\ held.kind = "OrderedMap" /\ held.turned
    /\ OMLen(held.om) = NumKeys
    /\ last.op = "PushFront" /\ last.err = NilErr
    /\ OMLen(om) = NumKeys
    /\ Items(held.om) = Items(held.of)
    /\ Items(om) # Items(held.om)
    /\ Items(om) # Reversed(Items(held.om))

\* C35: InsertAfter(k, v, k) and InsertBefore(k, v, k), where the key is
\* its own mark, never insert: they return ErrMarkKeyMissing when k is
\* absent and ErrKeyAlreadyPresent when k is present, and the map is
\* unchanged in both cases.
C35_InsertSelfMark ==
    last.op \in {"InsertAfter", "InsertBefore"} /\ last.key = last.mark =>
        /\ last.err = IF last.key \in DOMAIN last.pre.m
                      THEN ErrKeyAlreadyPresent ELSE ErrMarkKeyMissing
        /\ Unchanged
        /\ om = last.pre

\* InsertAfter of an absent key after itself on a map of other keys.
C35_Witness ==
    /\ CalledAbsent("InsertAfter") /\ last.key = last.mark
    /\ OMLen(last.pre) = NumKeys - 1
    /\ last.value # ZeroValue
    /\ last.err = ErrMarkKeyMissing

\* The map after Delete(k) followed by the insert, with k's old value.
DeleteThen(Insert(_, _, _), o, k) == Insert(Delete(o, k).om, k, Get(o, k).value)

\* C36: for distinct present keys k and mark, MoveAfter(k, mark) leaves
\* the map with the same Items() as Delete(k) followed by InsertAfter(k,
\* old value of k, mark), and MoveBefore(k, mark) as Delete(k) followed by
\* InsertBefore(k, old value, mark); MoveToFront(k) equals Delete(k) then
\* PushFront(k, old value), and MoveToBack(k) Delete(k) then PushBack(k,
\* old value).
C36_MoveIsDeleteInsert ==
    /\ last.op \in MoveOps /\ last.key \in DOMAIN last.pre.m =>
           Delete(last.pre, last.key).ok
    /\ CalledPresent("MoveToFront") =>
           LET r == DeleteThen(PushFront, last.pre, last.key) IN
           /\ last.err = NilErr /\ r.err = NilErr
           /\ Items(om) = Items(r.om)
           /\ Map(om) = Map(r.om)
    /\ CalledPresent("MoveToBack") =>
           LET r == DeleteThen(PushBack, last.pre, last.key) IN
           /\ last.err = NilErr /\ r.err = NilErr
           /\ Items(om) = Items(r.om)
           /\ Map(om) = Map(r.om)
    /\ (/\ CalledPresent("MoveAfter")
        /\ last.mark \in DOMAIN last.pre.m
        /\ last.mark # last.key) =>
           LET r == DeleteThen(LAMBDA o, k, v : InsertAfter(o, k, v, last.mark),
                               last.pre, last.key) IN
           /\ last.err = NilErr /\ r.err = NilErr
           /\ Items(om) = Items(r.om)
           /\ Map(om) = Map(r.om)
    /\ (/\ CalledPresent("MoveBefore")
        /\ last.mark \in DOMAIN last.pre.m
        /\ last.mark # last.key) =>
           LET r == DeleteThen(LAMBDA o, k, v : InsertBefore(o, k, v, last.mark),
                               last.pre, last.key) IN
           /\ last.err = NilErr /\ r.err = NilErr
           /\ Items(om) = Items(r.om)
           /\ Map(om) = Map(r.om)

\* MoveBefore has moved the last key of a full map before the first one.
C36_Witness ==
    /\ CalledPresent("MoveBefore") /\ last.err = NilErr
    /\ OMLen(om) = NumKeys
    /\ last.key = Back(last.pre).item.Key
    /\ last.mark = Front(last.pre).item.Key
    /\ Front(om).item.Key = last.key
    /\ Get(om, last.key).value # ZeroValue

\* The calls that report a missing key, a missing mark or a key already
\* present through the error they return.
ErrorOps ==
    InsertOps \cup MoveOps \cup {"Update"}

\* The calls that report a missing key or an empty map through the flag
\* they return.
FlagOps ==
    {"Get", "Delete", "Next", "Prev", "Front", "Back", "PopFront", "PopBack"}

\* The call on record was made with something missing or already there:
\* a key already present for an insertion, a missing mark, a missing key,
\* or an empty map for Front, Back, PopFront and PopBack.  MoveAfter(k, k)
\* and MoveBefore(k, k) look at nothing and are not among them.
Irregular ==
    LET has(k) == k \in DOMAIN last.pre.m IN
    \/ last.op \in InsertOps /\ has(last.key)
    \/ last.op \in {"InsertAfter", "InsertBefore"} /\ ~has(last.mark)
    \/ last.op \in {"MoveToFront", "MoveToBack", "Update", "Get", "Delete",
                    "Next", "Prev"}
           /\ ~has(last.key)
    \/ last.op \in {"MoveAfter", "MoveBefore"} /\ last.key # last.mark
           /\ (~has(last.key) \/ ~has(last.mark))
    \/ last.op \in {"Front", "Back", "PopFront", "PopBack"}
           /\ OMLen(last.pre) = 0

\* What an irregular call does instead of a panic: it returns one of the
\* three errors, or a false flag, and leaves the map as it was.
Reported ==
    /\ (last.op \in ErrorOps /\ Irregular) =>
           /\ last.err \in {ErrKeyMissing, ErrMarkKeyMissing,
                            ErrKeyAlreadyPresent}
           /\ om = last.pre
    /\ (last.op \in FlagOps /\ Irregular) =>
           /\ ~last.ok
           /\ om = last.pre

\* Filter, with any of the predicates or none, and Reverse copy every map
\* the operations can build without reaching their duplicate-key panic.
CopiesNeverPanic ==
    Ready =>
        /\ ~Reverse(om).panic
        /\ \A f \in Funcs \cup {NilFunc} : ~Filter(om, f).panic

AllBackward(o) == RangeReverse(o, KeyIn(K)).calls

\* C33: every loop of the operations ends.  In every map the operations can
\* build, the walk along Element.Next() from the front (Keys, Items, Range),
\* the walk along Element.Prev() from the back (RangeReverse) and the walk
\* along Next(item.Key) from Front() (Filter, Reverse) all stop by reaching
\* the end, after exactly Len() entries and with walking steps to spare,
\* and no element is met twice.  Keys and Items return Len() entries,
\* Reverse and Filter with no predicate copy Len() entries, Filter with a
\* predicate copies at most Len(), and Range and RangeReverse call their
\* visitor at most Len() times.
C33_LoopsEndAfterLen ==
    /\ Ready =>
           /\ OMLen(om) < MaxWalk
           /\ Len(ListNodes(om)) = OMLen(om)
           /\ Cardinality({ListNodes(om)[i] : i \in 1..Len(ListNodes(om))})
                  = OMLen(om)
           /\ Len(AllBackward(om)) = OMLen(om)
           /\ Len(Forward(om)) = OMLen(om)
           /\ Cardinality({Forward(om)[i].Key : i \in 1..Len(Forward(om))})
                  = OMLen(om)
    /\ last.op \in {"Keys", "Items"} => Len(last.rseq) = OMLen(last.pre)
    /\ last.op \in {"Range", "RangeReverse"} =>
           Len(last.rseq) <= OMLen(last.pre)
    /\ last.op = "Reverse" =>
           ~last.panic /\ OMLen(last.out) = OMLen(last.pre)
    /\ last.op = "Filter" =>
           /\ ~last.panic
           /\ OMLen(last.out) <= OMLen(last.pre)
           /\ last.f.nil => OMLen(last.out) = OMLen(last.pre)

\* Range has called a visitor that never stops it on each of the entries of
\* a full map, and has returned.
C33_Witness ==
    /\ last.op = "Range"
    /\ ~last.f.nil
    /\ OMLen(last.pre) = NumKeys
    /\ Len(last.rseq) = NumKeys

\* What successive PopFront calls, and successive PopBack calls, return
\* until the map is empty.
RECURSIVE DrainFront(_, _)
DrainFront(o, fuel) ==
    LET r == PopFront(o) IN
    IF ~r.ok \/ fuel = 0 THEN << >>
    ELSE <<r.item>> \o DrainFront(r.om, fuel - 1)

RECURSIVE DrainBack(_, _)
DrainBack(o, fuel) ==
    LET r == PopBack(o) IN
    IF ~r.ok \/ fuel = 0 THEN << >>
    ELSE <<r.item>> \o DrainBack(r.om, fuel - 1)

\* C37: a map filled with PushBack only, with distinct keys, gives its
\* entries back in insertion order to successive PopFront calls and in
\* reverse insertion order to successive PopBack calls.  After a
\* MoveToBack(k) on it, and after every successful MoveToBack(k) of the
\* caller, successive PopFront calls return the other entries in the order
\* they had and k last.  Each PopFront takes the first entry of Items() and
\* each PopBack the last, and each PushBack of an absent key adds the last.
C37_QueueOrder ==
    /\ (last.op = "newFromItems" /\ last.err = NilErr) =>
           /\ DrainFront(last.out, MaxWalk) = last.rseq
           /\ DrainBack(last.out, MaxWalk) = Reversed(last.rseq)
           /\ \A k \in DOMAIN last.out.m :
                  DrainFront(MoveToBack(last.out, k).om, MaxWalk) =
                      Without(last.rseq, k)
                          \o <<[Key |-> k, Value |-> Get(last.out, k).value]>>
    /\ CalledPresent("MoveToBack") =>
           /\ last.err = NilErr
           /\ DrainFront(om, MaxWalk) =
                  Without(Items(last.pre), last.key)
                      \o <<[Key |-> last.key,
                            Value |-> Get(last.pre, last.key).value]>>
    /\ (last.op = "PopFront" /\ OMLen(last.pre) > 0) =>
           /\ last.ok
           /\ <<last.ritem>> \o Items(om) = Items(last.pre)
    /\ (last.op = "PopBack" /\ OMLen(last.pre) > 0) =>
           /\ last.ok
           /\ Items(om) \o <<last.ritem>> = Items(last.pre)
    /\ CalledAbsent("PushBack") =>
           /\ last.err = NilErr
           /\ Items(om) =
                  Items(last.pre)
                      \o <<[Key |-> last.key, Value |-> last.value]>>

\* A full map has been filled with PushBack, its keys not in increasing
\* order, and successive PopFront calls return them in that order.
C37_Witness ==
    /\ last.op = "newFromItems" /\ last.err = NilErr
    /\ Len(last.rseq) = NumKeys
    /\ last.rseq[1].Key > last.rseq[2].Key
    /\ DrainFront(last.out, MaxWalk) = last.rseq

\* The items of s up to and including the one with key k.
UpTo(s, k) ==
    LET i == CHOOSE i \in 1..Len(s) : s[i].Key = k IN SubSeq(s, 1, i)

\* C38: Filter walks the source by key.  If the predicate deletes the key
\* it is called on from the source, Next of that key reports not-found and
\* Filter returns without a panic: the map it returns holds the entries the
\* predicate accepted among those up to and including the deleted one, in
\* their order, and none of the later entries, whether the predicate would
\* accept them or not; the source has lost that one key.  If the key the
\* predicate would delete is not in the source, Filter is as with a
\* predicate that changes nothing.
C38_FilterStopsAtDeletedKey ==
    last.op = "FilterDeleting" =>
        LET its == Items(last.pre) IN
        /\ ~last.panic
        /\ last.key \in DOMAIN last.pre.m =>
               /\ Items(last.out) =
                      SelectSeq(UpTo(its, last.key),
                                LAMBDA it : Accepted(last.f, it))
               /\ Items(om) = Without(its, last.key)
               /\ ~Get(om, last.key).ok
               /\ ~Next(om, last.key).ok
               /\ \A i \in 1..Len(its) :
                      Position(last.pre, its[i].Key)
                          > Position(last.pre, last.key)
                      => ~Get(last.out, its[i].Key).ok
        /\ last.key \notin DOMAIN last.pre.m =>
               /\ Items(last.out) =
                      SelectSeq(its, LAMBDA it : Accepted(last.f, it))
               /\ om = last.pre

\* The predicate accepts every key and has deleted the first key of a full
\* map: Filter has returned that entry alone, and the source has the others.
C38_Witness ==
    /\ last.op = "FilterDeleting"
    /\ OMLen(last.pre) = NumKeys
    /\ last.key = Front(last.pre).item.Key
    /\ last.f = KeyIn(K)
    /\ OMLen(last.out) = 1
    /\ OMLen(om) = NumKeys - 1
    /\ ~last.panic

\* C34: values are stored as given.  With references as values, PushFront
\* and PushBack store the reference they are given, and at every later time
\* Get(k) returns the reference the caller stored under k, not-found if it
\* stored none or deleted k: what is read through it is the caller's
\* object as the caller last wrote it.  A write of the caller to an object
\* leaves the map's order, key set and references as they were.
C34_ReferencesStoredAsGiven ==
    /\ (last.op \in {"PushFront", "PushBack"} /\ last.err = NilErr) =>
           Get(om, last.key) = [value |-> last.value, ok |-> TRUE]
    /\ Ready =>
           \A k \in K :
               Get(om, k) = IF k \in DOMAIN held.map
                            THEN [value |-> held.map[k], ok |-> TRUE]
                            ELSE [value |-> ZeroValue, ok |-> FALSE]
    /\ last.op = "Get" =>
           /\ last.ok <=> last.key \in DOMAIN held.map
           /\ last.ok => last.rvalue = held.map[last.key]
           /\ om = last.pre
    /\ last.op = "write" =>
           /\ Items(om) = Items(last.pre)
           /\ DOMAIN om.m = DOMAIN last.pre.m

\* The map is full, the caller has written "two" to an object whose
\* reference it had stored, and Get has returned that reference: "two" is
\* read through it.
C34_Witness ==
    /\ last.op = "Get" /\ last.ok
    /\ OMLen(om) = NumKeys
    /\ last.rvalue \in Objects
    /\ Deref(last.rvalue) = "two"
    /\ Deref(held.map[last.key]) = "two"

\* Both goroutines have returned nil from a push of the same key.
BothPushed ==
    /\ \A g \in Goroutines :
           held.seq[g].pc = "done" /\ held.seq[g].err = NilErr
    /\ held.seq[1].key = held.seq[2].key

\* The keys of the list's nodes, front to back.
NodeKeySeq(o) ==
    [i \in 1..Len(ListNodes(o)) |-> o.l.value[ListNodes(o)[i]].Key]

\* C32: when every call is made under the lock, in every state the keys of
\* the list's nodes are distinct, they are the keys of the table, Len() is
\* the number of nodes of the list once no call is running, at most one
\* call is running, and two pushes of the same key never both return nil.
\* Two pushes of the same key have both returned nil only if the calls were
\* not synchronised.
C32_SafeOnlyUnderMutex ==
    LET ks == NodeKeySeq(om) IN
    /\ held.kind = "mutex" =>
           /\ \A i, j \in 1..Len(ks) : i # j => ks[i] # ks[j]
           /\ ~(Running(1) /\ Running(2))
           /\ (~Running(1) /\ ~Running(2)) =>
                  /\ OMLen(om) = Len(ks)
                  /\ DOMAIN om.m = {ks[i] : i \in 1..Len(ks)}
           /\ \A g \in Goroutines : held.seq[g].pc # "fatal"
    /\ BothPushed => held.kind = "unsynchronised"

\* Without the lock, two pushes of one absent key have both returned nil:
\* the list holds two nodes with that key, the table one entry, and Len()
\* is not the number of nodes.
C32_Witness ==
    LET ks == NodeKeySeq(om) IN
    /\ held.kind = "unsynchronised"
    /\ BothPushed
    /\ Len(ks) = 2 /\ ks[1] = ks[2]
    /\ DOMAIN om.m = {ks[1]}
    /\ OMLen(om) = 1

====
